---- MODULE Spec2Model ----
(***************************************************************************)
(* State machine of the HomeTypeMap explorer (src/src/App.tsx, App()).     *)
(*                                                                         *)
(* One action per event handler / asynchronous completion.  React state    *)
(* updates made by one handler are batched (React 18, react-dom/client),   *)
(* so an action is the handler plus the re-run of every effect whose       *)
(* dependencies the handler changed (cleanup of the previous effect        *)
(* instance, then the new instance).                                       *)
(*                                                                         *)
(* The HTTP collaborator is outside the program.  A fetched list is        *)
(* represented by the request it answers (a record naming the query), and  *)
(* the ids it holds are a fixed function of that query (a fixture data     *)
(* base), so that "which fetch does the displayed list come from" is a     *)
(* question about state.                                                   *)
(***************************************************************************)
EXTENDS Integers, FiniteSets, Sequences, TLC

\* ------------------------------------------------------------- bounds
MaxView == 1
MaxComplex == 2
MaxFilter == 1
MaxInflight == 2
MaxPinId == 60
MaxKeyLen == 2
MaxPin == 2
MaxPointer == 1
MaxRect == 2

\* ------------------------------------------------------------- universe
DefaultView == 0
Views == 0..MaxView
Locations == 1..MaxView
ComplexIds == 1..MaxComplex
FilterValues == 0..MaxFilter
DEFAULT_FILTERS == 0
RadiusOptions == {1000, 3000, 5000}
DefaultRadius == 3000
Sides == {"before", "after"}

\* useState("demo-user"): a key is the sequence of its characters, "u" a
\* character that is not white space
DefaultUserKey == << "u" >>

\* the characters of a key: a white-space character and one that is not
KeyChars == {" ", "u"}

\* what the user-key input can hold
UserKeys == UNION {[1..n -> KeyChars] : n \in 0..MaxKeyLen}

\* String.prototype.trim: white space removed from both ends
RECURSIVE TrimStart(_)
TrimStart(k) == IF k # << >> /\ Head(k) = " " THEN TrimStart(Tail(k)) ELSE k

RECURSIVE TrimEnd(_)
TrimEnd(k) ==
    IF k # << >> /\ k[Len(k)] = " " THEN TrimEnd(SubSeq(k, 1, Len(k) - 1)) ELSE k

\* the key is used as typed
TrimNone(k) == k

\* userKey.trim()
Trim(k) == TrimEnd(TrimStart(k))

\* the null of a useState<... | null>

NoLocation == -1
NoComplex == -1
NoUnit == -1
NoPortfolio == -1
EmptyList == [src |-> "none"]

\* the last step neither committed a portfolio list nor reported a failed fetch
NoCommit == [kind |-> "none"]

\* unit_types of the detail the server returns for complex c: complex 1 has
\* two unit types, the last complex of the fixture has none, the others one.
UnitTypesOf(c) == IF c = MaxComplex THEN << >> ELSE IF c = 1 THEN << 1, 2 >> ELSE << c + 1 >>

UnitIds == UNION { {UnitTypesOf(c)[i] : i \in 1..Len(UnitTypesOf(c))} : c \in ComplexIds }

UnitsOfComplex(c) == IF c = NoComplex THEN {} ELSE {UnitTypesOf(c)[i] : i \in 1..Len(UnitTypesOf(c))}

ComplexOfUnit(u) == CHOOSE c \in ComplexIds : u \in UnitsOfComplex(c)

\* portfolio ids stored for unit type u, and the ones a query with filter
\* value f returns (filter 0 is the empty filter and returns all of them).
PortfoliosOfUnit(u) == {2 * u - 1, 2 * u}

PortfolioIdsFor(u, f) == {p \in PortfoliosOfUnit(u) : p % (f + 1) = 0}

PortfolioIds == UNION {PortfoliosOfUnit(u) : u \in UnitIds}

UnitOfPortfolio(p) == CHOOSE u \in UnitIds : p \in PortfoliosOfUnit(u)

\* filters.vendor_id undefined
NoVendor == -1

\* filters.vendor_id of the filters value f: applyFilters, applyPreset,
\* clearFilter and resetFilters set work_scope, min_area and budget_max_krw
\* only, so no filters value the component holds has the field
FilterVendorId(f) == NoVendor

\* the text of a filter draft field: "" (empty), the text of filter value
\* k > 0, or a text that is no number of 0 or more
EmptyDraft == 0

BadDraft == -1

DraftValues == {BadDraft, EmptyDraft} \cup (FilterValues \ {DEFAULT_FILTERS})

\* workScopeDraft || undefined, parsePositiveNumber(minAreaDraft): the
\* filter the draft stands for, none for an empty or rejected text
ParseDraft(d) == IF d \in FilterValues \ {DEFAULT_FILTERS} THEN d ELSE DEFAULT_FILTERS

\* query.vendor_id of the request fetchPortfolios sends for filters f
QueryVendorId(f) == IF FilterVendorId(f) # NoVendor THEN FilterVendorId(f) ELSE NoVendor

\* portfolio ids handed to the floor-plan pin mapper
PinCardIds == (0 - MaxPinId)..MaxPinId

\* the JavaScript remainder a % n (n > 0): the sign of the dividend
JsRem(a, n) == IF a >= 0 THEN a % n ELSE 0 - ((0 - a) % n)

\* Math.min
Min(a, b) == IF a <= b THEN a ELSE b

\* synthetic pin position of a card without explicit coordinates
fallbackFloorPin(portfolioId, side) ==
    LET baseX == 18 + JsRem(portfolioId * 17, 64)
        baseY == 16 + JsRem(portfolioId * 13, 66)
    IN  IF side = "before"
        THEN [x |-> baseX, y |-> baseY]
        ELSE [x |-> Min(92, baseX + 6), y |-> Min(92, baseY + 4)]

\* ------------------------------------------------------------- pin editor
\* (AdminApp.)  A ratio is a percentage kept in thousandths of a percent;
\* lengths on screen are integers of one unit.

\* n percent
Percent(n) == n * 1000

\* Math.max
Max(a, b) == IF a >= b THEN a ELSE b

\* the pointer position is taken relative to the viewport, not to the element
ratioFromViewport(clientX, clientY, rect) ==
    [x |-> Max(0, Min(Percent(100), (clientX * Percent(100)) \div rect.width)),
     y |-> Max(0, Min(Percent(100), (clientY * Percent(100)) \div rect.height))]

\* ratioFromClient: the pointer position as clamped percentages of the
\* element's bounding rectangle
ratioFromClient(clientX, clientY, rect) ==
    [x |-> Max(0, Min(Percent(100),
                      ((clientX - rect.left) * Percent(100)) \div rect.width)),
     y |-> Max(0, Min(Percent(100),
                      ((clientY - rect.top) * Percent(100)) \div rect.height))]

\* where an element positioned at left: x%, top: y% of rect is rendered
\* (x, y whole percentages; the sides of rect are multiples of 100 units)
renderedAt(x, y, rect) ==
    [x |-> rect.left + (x * rect.width) \div 100,
     y |-> rect.top + (y * rect.height) \div 100]

\* Number.prototype.toFixed(2), and the number the form text stands for:
\* the ratio rounded to hundredths of a percent
ToFixed2(v) == ((v + 5) \div 10) * 10

\* bounding rectangles of the floor-plan element the mapping is probed with
Rects ==
    {[left |-> 100 * k - 200, top |-> 100 * k, width |-> 100 * k,
      height |-> 100 * (MaxRect + 1 - k)] : k \in 1..MaxRect}

\* pointer coordinates far outside, at the edges of, and just inside a side
ProbeCoords(from, size) == {from - 1000, from - 1, from, from + 1, from + size - 1,
                            from + size, from + size + 1, from + size + 1000}

\* getBoundingClientRect() of the floor-plan editor element
EditorRect == [left |-> 40, top |-> 120, width |-> 300, height |-> 200]

\* the pointer positions of mouse events over the editor: the first lies
\* outside the element, the others inside or beyond its far edge
PointerIds == 0..MaxPointer

PointerAt(i) == [x |-> EditorRect.left - 50 + 111 * i,
                 y |-> EditorRect.top - 30 + 90 * i]

\* pin_id values the server hands out
PinIds == 0..MaxPin

\* useState<number | null>(null)
NoPin == -1

\* !id is false: the id is neither null nor 0
Truthy(id) == id # NoPin /\ id # 0

\* the portfolio refreshAll selects: nextPortfolios[0].portfolio_id
AdminPortfolioId == 1

\* useState pinForm: x_ratio "50", y_ratio "50"
DefaultPinForm == [x |-> Percent(50), y |-> Percent(50)]

\* the other portfolio of the target portfolio selector
OtherPortfolioId == 2

AdminPortfolioIds == {AdminPortfolioId, OtherPortfolioId}

\* pin_id of the pin the other portfolio has
OtherPinId == MaxPin + 1

AllPinIds == PinIds \cup {OtherPinId}

\* portfolio_id of the pin with pin_id id
PortfolioOfPin(id) == IF id = OtherPinId THEN OtherPortfolioId ELSE AdminPortfolioId

\* the pins the server holds before the operator edits: those of the first
\* portfolio and the one of the other portfolio
SeedPins ==
    [id \in (0..(MaxPin - 1)) \cup {OtherPinId} |->
        IF id = OtherPinId THEN [x |-> Percent(70), y |-> Percent(60)]
        ELSE [x |-> Percent(10 + 20 * id), y |-> Percent(40)]]

\* adminListFloorPlanPins(key, portfolioId): the rows of one portfolio
RowsOf(rows, portfolioId) ==
    [id \in {i \in DOMAIN rows : PortfolioOfPin(i) = portfolioId} |-> rows[id]]

\* no pointer-move has happened in the current drag
NoMove == [x |-> -1, y |-> -1]

\* map position of complex c (its pin's latitude/longitude) as a view.
ComplexPos(c) == IF c <= MaxView THEN c ELSE MaxView

VARIABLES
    mounted,            \* the App component is mounted (mapRef.current # null)
    geoSupported,       \* navigator.geolocation exists
    mapView,            \* viewport of the Leaflet map object
    moveendPending,     \* a programmatic setView/panTo has not yet fired moveend
    bounds,             \* useState bounds
    mapMode,            \* useState mapMode
    timers,             \* scheduled loadPins timeouts of the bounds-pins effect
    pinsReqs,           \* fetchMapPins calls in flight
    geoReqs,            \* getCurrentPosition calls waiting for their callback
    nearbyReqs,         \* fetchNearbyComplexes calls in flight
    clusters,           \* useState clusters
    complexes,          \* useState complexes
    loadingMap,         \* useState loadingMap
    userLocation,       \* useState userLocation
    nearbyRadiusM,      \* useState nearbyRadiusM
    status,             \* useState status
    selectedComplex,    \* useState selectedComplex (complex_id of the detail)
    selectedUnitType,   \* useState selectedUnitType (unit_type_id)
    portfolios,         \* useState portfolios
    filters,            \* useState filters
    detailReqs,         \* fetchComplexDetail calls in flight
    portfolioReqs,      \* fetchPortfolios calls in flight
    loadingPortfolios,  \* useState loadingPortfolios
    highlightList,      \* useState highlightList
    mobilePanel,        \* useState mobilePanel
    selectedCardImages, \* useState selectedCardImages
    selectedPinnedPortfolioId, \* useState selectedPinnedPortfolioId
    markerLayer,        \* the markers of markerLayerRef.current
    lastClusterView,    \* history: the last map.setView call of a cluster marker
    filterDraft,        \* useState workScopeDraft / minAreaDraft / budgetMaxDraft
    userKey,            \* useState userKey (the characters of the input)
    favoriteReqs,       \* saveFavorite calls in flight
    quoteReqs,          \* requestQuote calls in flight
    pinCard,            \* portfolio_id of the card handed to fallbackFloorPin
    pinOut,             \* the synthetic pins fallbackFloorPin returned for pinCard
    adminStatus,        \* AdminApp useState status
    selectedPortfolioId, \* AdminApp useState selectedPortfolioId
    pins,               \* AdminApp useState pins: pin_id -> (x_ratio, y_ratio)
    editingPinId,       \* AdminApp useState editingPinId
    draggingPinId,      \* AdminApp useState draggingPinId
    pinForm,            \* AdminApp useState pinForm (x_ratio, y_ratio)
    serverPins,         \* the pins the server stores for the portfolio
    pinCalls,           \* floor-plan-pin API calls in flight
    ratioIn,            \* rectangle and pointer handed to ratioFromClient
    ratioOut,           \* what ratioFromClient returned for ratioIn
    lastMove,           \* history: ratio of the last pointer-move of the current drag
    lastDiscard,        \* history: kind of stale completion the last step discarded
    lastSelectIssued,   \* history: complex of the latest handleSelectComplex call
    lastCommit          \* history: the portfolio fetch the last step completed, if any

mapVars == << mapView, moveendPending, bounds, mapMode, timers, pinsReqs, geoReqs,
              nearbyReqs, clusters, complexes, loadingMap, userLocation, nearbyRadiusM >>

selVars == << selectedComplex, selectedUnitType, portfolios, filters, detailReqs,
              portfolioReqs, loadingPortfolios, highlightList, mobilePanel,
              selectedCardImages, selectedPinnedPortfolioId >>

editorVars == << adminStatus, selectedPortfolioId, pins, editingPinId, draggingPinId,
                 pinForm, serverPins, pinCalls, lastMove >>

adminVars == << editorVars, ratioIn, ratioOut >>

sideVars == << userKey, favoriteReqs, quoteReqs, pinCard, pinOut, adminVars >>

extraVars == << lastClusterView, markerLayer >>

auxVars == << filterDraft, extraVars, sideVars >>

hist == << lastDiscard, lastSelectIssued, lastCommit >>

vars == << mounted, geoSupported, mapVars, status, selVars, auxVars, hist >>

\* ------------------------------------------------------------- helpers
\* Calls in flight are kept as a set of the queries awaiting an answer (with
\* the cancelled flag of the effect instance that issued them); at most
\* MaxInflight calls of one kind are outstanding at a time.
HasRoom(reqs) == Cardinality(reqs) < MaxInflight

\* the same for the selection side, whose detail and portfolio calls share
\* the cap: details are the fetchComplexDetail calls the step leaves in flight
HasSelRoom(details) == Cardinality(details) + Cardinality(portfolioReqs) < MaxInflight

\* effect cleanup "cancelled = true" on every instance of the effect
CancelNone(reqs) == reqs

CancelAll(reqs) == {[r EXCEPT !.cancelled = TRUE] : r \in reqs}

\* effect cleanup "clearTimeout(id)": the scheduled callback never runs
ClearTimeoutKept(ts) == ts

ClearTimeout(ts) == {}

\* the effect body has no mode guard
SchedulePinsAnyMode(mode, b) == {[bounds |-> b, elapsed |-> FALSE, cancelled |-> FALSE]}

\* body of the bounds-pins effect: nothing in nearby mode, else
\* setTimeout(loadPins, 200) closing over bounds and a fresh cancelled flag
SchedulePins(mode, b) ==
    IF mode # "bounds" THEN {}
    ELSE {[bounds |-> b, elapsed |-> FALSE, cancelled |-> FALSE]}

\* the guards "if (cancelled) return" / "if (!cancelled)" of loadPins
PinsCancelledIgnored(r) == FALSE

PinsCancelled(r) == r.cancelled

\* the catch branch empties the displayed data
ClearedOnError(data) == EmptyList

\* the displayed data after the catch branch of a fetch: the branch only
\* calls setStatus, so the data stay in place
KeptOnError(data) == data

\* the list a response carries, named by the request it answers
PinsResult(b) == [src |-> "bounds", key |-> b]

NearbyResult(loc, radius) == [src |-> "nearby", key |-> << loc, radius >>]

PortfolioResult(c, u, f) == [src |-> "portfolios", complex |-> c, unit |-> u, filters |-> f]

\* complex ids with a marker for the displayed complexes list
ComplexIdsIn(list) == IF list = EmptyList THEN {} ELSE ComplexIds

\* the clusters of a displayed result (a nearby result has none)
ClusterIdsIn(list) == IF list = EmptyList \/ list.src # "bounds" THEN {} ELSE Locations

\* portfolio ids of the cards of a portfolio list
ItemsOf(list) == IF list = EmptyList THEN {} ELSE PortfolioIdsFor(list.unit, list.filters)

\* ------------------------------------------------------------- effects
\* dependency lists of the two fetching effects
PinsEffectDepsModeMissing == {"bounds"}

PinsEffectDeps == {"bounds", "mapMode"}

PortfolioEffectDepsFiltersMissing == {"selectedComplex", "selectedUnitType", "highlightList"}

PortfolioEffectDeps == {"selectedComplex", "selectedUnitType", "filters", "highlightList"}

\* the result a marker was built from
ResultId(list) ==
    IF list.src = "bounds" THEN << "bounds", list.key, 0 >>
    ELSE << "nearby", list.key[1], list.key[2] >>

\* the markers stay on the layer
ClearLayersKept(layer) == layer

\* layer.clearLayers()
ClearLayers(layer) == {}

\* clusters.forEach / complexes.forEach of the marker layer effect: one
\* marker per cluster and per complex, the selected complex's marked active
MarkersOf(cl, cx, sel) ==
    {[kind |-> "cluster", id |-> k, of |-> ResultId(cl), active |-> FALSE] :
         k \in ClusterIdsIn(cl)} \cup
    {[kind |-> "complex", id |-> c, of |-> ResultId(cx), active |-> (sel = c)] :
         c \in ComplexIdsIn(cx)}

\* marker layer effect, deps [clusters, complexes, selectedComplex]: clear
\* the layer, then add the markers of the current result
MarkerLayerEffect(changed, cl, cx, sel) ==
    IF changed
    THEN markerLayer' = ClearLayers(markerLayer) \cup MarkersOf(cl, cx, sel)
    ELSE UNCHANGED markerLayer

\* the highlight flag is no dependency of the portfolio effect
HighlightIsNoDep == FALSE

\* highlightList is in the dependency list of the portfolio effect
HighlightIsDep == "highlightList" \in PortfolioEffectDeps

\* bounds-pins effect, deps [bounds, mapMode]: when a dep changed, the
\* previous instance is cleaned up and the effect body runs again.
PinsEffect(changed, b, mode) ==
    IF changed
    THEN /\ timers' = ClearTimeout(CancelAll(timers)) \cup SchedulePins(mode, b)
         /\ pinsReqs' = CancelAll(pinsReqs)
    ELSE UNCHANGED << timers, pinsReqs >>

\* ------------------------------------------------------------- map actions
\* bounds is set back to DEFAULT_BOUNDS
syncBoundsDefault(view) == DefaultView

\* syncBoundsFromMap: setBounds(bounds and zoom of the map), view being
\* the viewport of the map
syncBoundsFromMap(view) == view

\* moveend / zoomend after a user pan or zoom: syncBoundsFromMap
UserNavigate(v) ==
    /\ mounted
    /\ mapView' = v
    /\ moveendPending' = FALSE
    /\ bounds' = syncBoundsFromMap(v)
    /\ PinsEffect("bounds" \in PinsEffectDeps, v, mapMode)
    /\ lastDiscard' = "none"
    /\ UNCHANGED << lastSelectIssued, auxVars >>
    /\ lastCommit' = NoCommit
    /\ UNCHANGED << mounted, geoSupported, mapMode, geoReqs, nearbyReqs, clusters,
                    complexes, loadingMap, userLocation, nearbyRadiusM, status, selVars >>

\* moveend of a programmatic setView / panTo: syncBoundsFromMap
MoveEnd ==
    /\ mounted
    /\ moveendPending
    /\ moveendPending' = FALSE
    /\ bounds' = syncBoundsFromMap(mapView)
    /\ PinsEffect("bounds" \in PinsEffectDeps, mapView, mapMode)
    /\ lastDiscard' = "none"
    /\ UNCHANGED << lastSelectIssued, auxVars >>
    /\ lastCommit' = NoCommit
    /\ UNCHANGED << mounted, geoSupported, mapView, mapMode, geoReqs, nearbyReqs,
                    clusters, complexes, loadingMap, userLocation, nearbyRadiusM,
                    status, selVars >>

\* 200 ms pass since the timeout t was scheduled
SettleDelayElapses(t) ==
    /\ t \in timers
    /\ ~t.elapsed
    /\ timers' = (timers \ {t}) \cup {[t EXCEPT !.elapsed = TRUE]}
    /\ lastDiscard' = "none"
    /\ UNCHANGED << lastSelectIssued, auxVars >>
    /\ lastCommit' = NoCommit
    /\ UNCHANGED << mounted, geoSupported, mapView, moveendPending, bounds, mapMode,
                    pinsReqs, geoReqs, nearbyReqs, clusters, complexes, loadingMap,
                    userLocation, nearbyRadiusM, status, selVars >>

\* the timeout callback: loadPins up to its await
LoadPins(t) ==
    /\ t \in timers
    /\ t.elapsed
    /\ mounted
    /\ HasRoom(pinsReqs)
    /\ timers' = timers \ {t}
    /\ loadingMap' = TRUE
    /\ pinsReqs' = pinsReqs \cup
           {[bounds |-> t.bounds, cancelled |-> t.cancelled]}
    /\ lastDiscard' = "none"
    /\ UNCHANGED << lastSelectIssued, auxVars >>
    /\ lastCommit' = NoCommit
    /\ UNCHANGED << mounted, geoSupported, mapView, moveendPending, bounds, mapMode,
                    geoReqs, nearbyReqs, clusters, complexes, userLocation,
                    nearbyRadiusM, status, selVars >>

\* loadPins after its await: fetchMapPins resolved (ok) or rejected
PinsResponse(r, ok) ==
    /\ r \in pinsReqs
    /\ UNCHANGED << lastSelectIssued, filterDraft, lastClusterView, sideVars >>
    /\ lastCommit' = NoCommit
    /\ pinsReqs' = pinsReqs \ {r}
    /\ IF PinsCancelled(r)
       THEN /\ lastDiscard' = "pins"
            /\ UNCHANGED << clusters, complexes, status, loadingMap >>
       ELSE /\ lastDiscard' = "none"
            /\ loadingMap' = FALSE
            /\ IF ok
               THEN /\ clusters' = PinsResult(r.bounds)
                    /\ complexes' = PinsResult(r.bounds)
                    /\ status' = "pins_updated"
               ELSE /\ status' = "pins_error"
                    /\ clusters' = KeptOnError(clusters)
                    /\ complexes' = KeptOnError(complexes)
    /\ UNCHANGED << mounted, geoSupported, mapView, moveendPending, bounds, mapMode,
                    timers, geoReqs, nearbyReqs, userLocation, nearbyRadiusM, selVars >>
    /\ MarkerLayerEffect(~PinsCancelled(r) /\ ok, clusters', complexes', selectedComplex)

\* the radius selector
SetNearbyRadius(radius) ==
    /\ mounted
    /\ nearbyRadiusM' = radius
    /\ lastDiscard' = "none"
    /\ UNCHANGED << lastSelectIssued, auxVars >>
    /\ lastCommit' = NoCommit
    /\ UNCHANGED << mounted, geoSupported, mapView, moveendPending, bounds, mapMode,
                    timers, pinsReqs, geoReqs, nearbyReqs, clusters, complexes,
                    loadingMap, userLocation, status, selVars >>

\* focusNearby up to getCurrentPosition
FocusNearby ==
    /\ mounted
    /\ lastDiscard' = "none"
    /\ UNCHANGED << lastSelectIssued, auxVars >>
    /\ lastCommit' = NoCommit
    /\ IF ~geoSupported
       THEN /\ status' = "geo_unsupported"
            /\ UNCHANGED geoReqs
       ELSE /\ HasRoom(geoReqs)
            /\ status' = "locating"
            /\ geoReqs' = geoReqs \cup {[radius |-> nearbyRadiusM]}
    /\ UNCHANGED << mounted, geoSupported, mapView, moveendPending, bounds, mapMode,
                    timers, pinsReqs, nearbyReqs, clusters, complexes, loadingMap,
                    userLocation, nearbyRadiusM, selVars >>

\* geolocation success callback up to its await
GeoSuccess(g, loc) ==
    /\ g \in geoReqs
    /\ HasRoom(nearbyReqs)
    /\ geoReqs' = geoReqs \ {g}
    /\ nearbyReqs' = nearbyReqs \cup
           {[loc |-> loc, radius |-> g.radius]}
    /\ lastDiscard' = "none"
    /\ UNCHANGED << lastSelectIssued, auxVars >>
    /\ lastCommit' = NoCommit
    /\ IF mounted
       THEN /\ userLocation' = loc
            /\ mapView' = loc
            /\ moveendPending' = TRUE
            /\ loadingMap' = TRUE
       ELSE UNCHANGED << userLocation, mapView, moveendPending, loadingMap >>
    /\ UNCHANGED << mounted, geoSupported, bounds, mapMode, timers, pinsReqs, clusters,
                    complexes, nearbyRadiusM, status, selVars >>

\* one message for every geolocation failure
GeoErrorStatusSame(denied) == "geo_failed"

\* the message of the error callback: err.code === err.PERMISSION_DENIED or not
GeoErrorStatus(denied) == IF denied THEN "geo_denied" ELSE "geo_failed"

\* geolocation error callback
GeoError(g, denied) ==
    /\ g \in geoReqs
    /\ geoReqs' = geoReqs \ {g}
    /\ lastDiscard' = "none"
    /\ UNCHANGED << lastSelectIssued, auxVars >>
    /\ lastCommit' = NoCommit
    /\ status' = IF ~mounted THEN status ELSE GeoErrorStatus(denied)
    /\ UNCHANGED << mounted, geoSupported, mapView, moveendPending, bounds, mapMode,
                    timers, pinsReqs, nearbyReqs, clusters, complexes, loadingMap,
                    userLocation, nearbyRadiusM, selVars >>

\* geolocation success callback after its await
NearbyResponse(n, ok) ==
    /\ n \in nearbyReqs
    /\ nearbyReqs' = nearbyReqs \ {n}
    /\ lastDiscard' = "none"
    /\ UNCHANGED << lastSelectIssued, filterDraft, lastClusterView, sideVars >>
    /\ lastCommit' = NoCommit
    /\ IF ~mounted
       THEN UNCHANGED << mapMode, clusters, complexes, status, loadingMap, timers, pinsReqs >>
       ELSE /\ loadingMap' = FALSE
            /\ IF ok
               THEN /\ mapMode' = "nearby"
                    /\ clusters' = EmptyList
                    /\ complexes' = NearbyResult(n.loc, n.radius)
                    /\ status' = "nearby_done"
                    /\ PinsEffect("mapMode" \in PinsEffectDeps /\ mapMode # "nearby", bounds, "nearby")
               ELSE /\ status' = "nearby_error"
                    /\ clusters' = KeptOnError(clusters)
                    /\ complexes' = KeptOnError(complexes)
                    /\ UNCHANGED << mapMode, timers, pinsReqs >>
    /\ UNCHANGED << mounted, geoSupported, mapView, moveendPending, bounds, geoReqs,
                    userLocation, nearbyRadiusM, selVars >>
    /\ MarkerLayerEffect(mounted /\ ok, clusters', complexes', selectedComplex)

BackToBoundsMode ==
    /\ mounted
    /\ mapMode = "nearby"
    /\ mapMode' = "bounds"
    /\ userLocation' = NoLocation
    /\ bounds' = syncBoundsFromMap(mapView)
    /\ status' = "bounds_mode"
    /\ PinsEffect("bounds" \in PinsEffectDeps, mapView, "bounds")
    /\ lastDiscard' = "none"
    /\ UNCHANGED << lastSelectIssued, auxVars >>
    /\ lastCommit' = NoCommit
    /\ UNCHANGED << mounted, geoSupported, mapView, moveendPending, geoReqs, nearbyReqs,
                    clusters, complexes, loadingMap, nearbyRadiusM, selVars >>

ResetMapView ==
    /\ mounted
    /\ mapView' = DefaultView
    /\ moveendPending' = TRUE
    /\ mapMode' = "bounds"
    /\ userLocation' = NoLocation
    /\ PinsEffect("mapMode" \in PinsEffectDeps /\ mapMode # "bounds", bounds, "bounds")
    /\ lastDiscard' = "none"
    /\ UNCHANGED << lastSelectIssued, auxVars >>
    /\ lastCommit' = NoCommit
    /\ UNCHANGED << mounted, geoSupported, bounds, geoReqs, nearbyReqs, clusters,
                    complexes, loadingMap, nearbyRadiusM, status, selVars >>

\* minZoom / maxZoom of the Leaflet map, and the zoom levels it can report
MinZoom == 7

MaxZoom == 18

ZoomLevels == MinZoom..MaxZoom

\* the zoom is left as it is
clampNone(value, min, max) == value

\* clamp(value, min, max)
clamp(value, min, max) == Max(min, Min(max, value))

\* the view centred on cluster k
ClusterPos(k) == k

\* no cluster marker has been clicked
NoClusterView == [cluster |-> -1, from |-> -1, zoom |-> -1]

\* click on a cluster marker while the map reports zoom z:
\* map.setView(centre of the cluster, clamp(z + 2, 7, 18))
ClusterClick(k, z) ==
    /\ mounted
    /\ k \in ClusterIdsIn(clusters)
    /\ mapView' = ClusterPos(k)
    /\ moveendPending' = TRUE
    /\ lastClusterView' = [cluster |-> k, from |-> z, zoom |-> clamp(z + 2, MinZoom, MaxZoom)]
    /\ lastDiscard' = "none"
    /\ UNCHANGED << lastSelectIssued, filterDraft, markerLayer, sideVars >>
    /\ lastCommit' = NoCommit
    /\ UNCHANGED << mounted, geoSupported, bounds, mapMode, timers, pinsReqs, geoReqs,
                    nearbyReqs, clusters, complexes, loadingMap, userLocation,
                    nearbyRadiusM, status, selVars >>

\* ------------------------------------------------------------- selection
\* card.after_image_url / card.before_image_url of the fixture's cards
HasAfterImage(p) == p % 2 = 0

HasBeforeImage(p) == p % 3 # 0

defaultImageSide(p) ==
    IF HasAfterImage(p) THEN "after"
    ELSE IF HasBeforeImage(p) THEN "before"
    ELSE "after"

\* card.floor_plan_before_x / _y (side before) and card.floor_plan_after_x /
\* _y (side after) of the fixture's cards: present on every fourth card
HasExplicitPosition(p, side) == p % 4 = 0

\* position of the pin of card p for one side: explicit ?? fallback
FloorPinPosition(p, side) ==
    IF HasExplicitPosition(p, side) THEN [x |-> 50, y |-> 50]
    ELSE fallbackFloorPin(p, side)

\* the mapper pushes pins only for the cards that have a before image
floorPlanPinsOfImagedCards(list) ==
    {[portfolioId |-> p, side |-> side,
      x |-> FloorPinPosition(p, side).x, y |-> FloorPinPosition(p, side).y] :
        p \in {q \in ItemsOf(list) : HasBeforeImage(q)}, side \in Sides}

\* useMemo floorPlanPins: a before pin and an after pin for every card
floorPlanPins(list) ==
    {[portfolioId |-> p, side |-> side,
      x |-> FloorPinPosition(p, side).x, y |-> FloorPinPosition(p, side).y] :
        p \in ItemsOf(list), side \in Sides}

\* the guards "if (cancelled) return" / "if (!cancelled)" of the portfolio effect
PortfolioCancelledIgnored(r) == FALSE

PortfolioCancelled(r) == r.cancelled

\* the last unit type of the detail
LastUnit(c) == IF Len(UnitTypesOf(c)) = 0 THEN NoUnit ELSE UnitTypesOf(c)[Len(UnitTypesOf(c))]

\* detail.unit_types[0] ?? null
FirstUnit(c) == IF Len(UnitTypesOf(c)) = 0 THEN NoUnit ELSE UnitTypesOf(c)[1]

\* whether the portfolio effect body fetches: "if (!selectedComplex || !selectedUnitType) return"
PortfolioEffectFetches(c, u) == c # NoComplex /\ u # NoUnit

\* portfolio effect, deps [selectedComplex, selectedUnitType, filters, highlightList]:
\* cleanup of the previous instance, then run(): setLoadingPortfolios(true),
\* setStatus, fetchPortfolios.  handlerStatus is the status the handler left,
\* details the fetchComplexDetail calls it leaves in flight.
PortfolioEffect(changed, c, u, f, handlerStatus, details) ==
    IF ~changed
    THEN /\ status' = handlerStatus
         /\ UNCHANGED << portfolioReqs, loadingPortfolios >>
    ELSE IF PortfolioEffectFetches(c, u)
    THEN /\ HasSelRoom(details)
         /\ portfolioReqs' = CancelAll(portfolioReqs) \cup
                {[complex |-> c, unit |-> u,
                  filters |-> f, cancelled |-> FALSE]}
         /\ loadingPortfolios' = TRUE
         /\ status' = "portfolio_loading"
    ELSE /\ portfolioReqs' = CancelAll(portfolioReqs)
         /\ status' = handlerStatus
         /\ UNCHANGED loadingPortfolios

\* effect on [portfolios]: keep a chosen side, default the others
ReconcileImages(prev, list) ==
    [p \in ItemsOf(list) |-> IF p \in DOMAIN prev THEN prev[p] ELSE defaultImageSide(p)]

\* the pinned id survives every list refresh
PinnedAfterEffectsKept(pinned, list, unitChanged) ==
    IF unitChanged THEN NoPortfolio ELSE pinned

\* the two effects that reset selectedPinnedPortfolioId: pinned is the value
\* the handler left, list the new portfolios, unitChanged whether
\* selectedUnitType?.unit_type_id changed
PinnedAfterEffects(pinned, list, unitChanged) ==
    IF unitChanged THEN NoPortfolio
    ELSE IF pinned # NoPortfolio /\ pinned \notin ItemsOf(list) THEN NoPortfolio
    ELSE pinned

\* click on a complex marker: map.panTo, handleSelectComplex(id, true) up to its await
MarkerClick(c) ==
    /\ mounted
    /\ c \in ComplexIdsIn(complexes)
    /\ HasSelRoom(detailReqs)
    /\ mapView' = ComplexPos(c)
    /\ moveendPending' = TRUE
    /\ status' = "loading_complex"
    /\ detailReqs' = detailReqs \cup
           {[complex |-> c, fromMap |-> TRUE]}
    /\ lastDiscard' = "none"
    /\ lastSelectIssued' = c
    /\ lastCommit' = NoCommit
    /\ UNCHANGED auxVars
    /\ UNCHANGED << mounted, geoSupported, bounds, mapMode, timers, pinsReqs, geoReqs,
                    nearbyReqs, clusters, complexes, loadingMap, userLocation,
                    nearbyRadiusM, selectedComplex, selectedUnitType, portfolios,
                    filters, portfolioReqs, loadingPortfolios, highlightList,
                    mobilePanel, selectedCardImages, selectedPinnedPortfolioId >>

\* handleSelectComplex after its await: fetchComplexDetail resolved (ok) or rejected
DetailResponse(d, ok) ==
    /\ d \in detailReqs
    /\ detailReqs' = detailReqs \ {d}
    /\ lastDiscard' = "none"
    /\ UNCHANGED << lastSelectIssued, filterDraft, lastClusterView, sideVars >>
    /\ lastCommit' = NoCommit
    /\ IF ~mounted
       THEN UNCHANGED << selectedComplex, selectedUnitType, portfolios, portfolioReqs,
                         loadingPortfolios, highlightList, mobilePanel,
                         selectedCardImages, selectedPinnedPortfolioId, status >>
       ELSE IF ~ok
       THEN /\ status' = "complex_error"
            /\ UNCHANGED << selectedComplex, selectedUnitType, portfolios, portfolioReqs,
                            loadingPortfolios, highlightList, mobilePanel,
                            selectedCardImages, selectedPinnedPortfolioId >>
       ELSE LET first == FirstUnit(d.complex)
                list == IF first = NoUnit THEN EmptyList ELSE portfolios
            IN  /\ selectedComplex' = d.complex
                /\ selectedUnitType' = first
                /\ mobilePanel' = IF d.fromMap THEN "list" ELSE mobilePanel
                /\ highlightList' = IF d.fromMap THEN TRUE ELSE highlightList
                /\ portfolios' = list
                /\ PortfolioEffect("selectedComplex" \in PortfolioEffectDeps, d.complex, first, filters,
                                   IF first = NoUnit THEN "no_unit_types" ELSE status,
                                   detailReqs \ {d})
                /\ selectedCardImages' = IF first = NoUnit
                                         THEN ReconcileImages(selectedCardImages, list)
                                         ELSE selectedCardImages
                /\ selectedPinnedPortfolioId' =
                       PinnedAfterEffects(selectedPinnedPortfolioId, list,
                                          first # selectedUnitType)
    /\ UNCHANGED << mounted, geoSupported, mapVars, filters >>
    /\ MarkerLayerEffect(mounted /\ ok, clusters, complexes, selectedComplex')

\* click on a unit type chip: setSelectedUnitType(unit)
UnitChipClick(u) ==
    /\ mounted
    /\ u \in UnitsOfComplex(selectedComplex)
    /\ u # selectedUnitType
    /\ selectedUnitType' = u
    /\ PortfolioEffect("selectedUnitType" \in PortfolioEffectDeps, selectedComplex, u, filters, status, detailReqs)
    /\ selectedPinnedPortfolioId' = PinnedAfterEffects(selectedPinnedPortfolioId, portfolios, TRUE)
    /\ lastDiscard' = "none"
    /\ UNCHANGED << lastSelectIssued, auxVars >>
    /\ lastCommit' = NoCommit
    /\ UNCHANGED << mounted, geoSupported, mapVars, selectedComplex, portfolios, filters,
                    detailReqs, highlightList, mobilePanel, selectedCardImages >>

\* the filters apply at once
FiltersAppliedAtOnce(f, d) == ParseDraft(d)

\* the applied filters after an edit of a draft field: the onChange handlers
\* of the filter row only call the draft setters
FiltersAfterDraftEdit(f, d) == f

\* onChange of a filter-row field: setWorkScopeDraft / setMinAreaDraft /
\* setBudgetMaxDraft
SetFilterDraft(d) ==
    /\ mounted
    /\ d # filterDraft
    /\ filterDraft' = d
    /\ filters' = FiltersAfterDraftEdit(filters, d)
    /\ PortfolioEffect("filters" \in PortfolioEffectDeps /\ filters' # filters,
                       selectedComplex, selectedUnitType, filters', status, detailReqs)
    /\ lastDiscard' = "none"
    /\ UNCHANGED << lastSelectIssued, extraVars, sideVars >>
    /\ lastCommit' = NoCommit
    /\ UNCHANGED << mounted, geoSupported, mapVars, selectedComplex, selectedUnitType,
                    portfolios, detailReqs, highlightList, mobilePanel,
                    selectedCardImages, selectedPinnedPortfolioId >>

\* applyFilters / applyPreset / clearFilter / resetFilters: setFilters with a
\* new object.  The apply button takes the filters from the drafts and
\* leaves the drafts; a preset writes its value to the draft as well;
\* clearing the chip and the reset button empty the draft.
ApplyFilters(f) ==
    /\ mounted
    /\ filters' = f
    /\ \/ f = ParseDraft(filterDraft) /\ filterDraft' = filterDraft
       \/ f # DEFAULT_FILTERS /\ filterDraft' = f
       \/ f = DEFAULT_FILTERS /\ filterDraft' = EmptyDraft
    /\ PortfolioEffect("filters" \in PortfolioEffectDeps, selectedComplex, selectedUnitType, f, status, detailReqs)
    /\ lastDiscard' = "none"
    /\ UNCHANGED << lastSelectIssued, extraVars, sideVars >>
    /\ lastCommit' = NoCommit
    /\ UNCHANGED << mounted, geoSupported, mapVars, selectedComplex, selectedUnitType,
                    portfolios, detailReqs, highlightList, mobilePanel,
                    selectedCardImages, selectedPinnedPortfolioId >>

\* run() of the portfolio effect after its await: fetchPortfolios resolved or rejected
PortfolioResponse(r, ok) ==
    /\ r \in portfolioReqs
    /\ UNCHANGED << lastSelectIssued, auxVars >>
    /\ portfolioReqs' = portfolioReqs \ {r}
    /\ IF PortfolioCancelled(r)
       THEN /\ lastDiscard' = "portfolio"
            /\ lastCommit' = NoCommit
            /\ UNCHANGED << portfolios, status, loadingPortfolios, selectedCardImages,
                            selectedPinnedPortfolioId >>
       ELSE /\ lastDiscard' = "none"
            /\ loadingPortfolios' = FALSE
            /\ IF ok
               THEN LET list == PortfolioResult(r.complex, r.unit, r.filters)
                    IN  /\ portfolios' = list
                        /\ lastCommit' = [kind |-> "portfolios",
                                          pinned |-> selectedPinnedPortfolioId]
                        /\ status' = "portfolio_done"
                        /\ selectedCardImages' = ReconcileImages(selectedCardImages, list)
                        /\ selectedPinnedPortfolioId' =
                               PinnedAfterEffects(selectedPinnedPortfolioId, list, FALSE)
               ELSE /\ status' = "portfolio_error"
                    /\ lastCommit' = [kind |-> "failed", query |-> r]
                    /\ portfolios' = KeptOnError(portfolios)
                    /\ UNCHANGED << selectedCardImages, selectedPinnedPortfolioId >>
    /\ UNCHANGED << mounted, geoSupported, mapVars, selectedComplex, selectedUnitType,
                    filters, detailReqs, highlightList, mobilePanel >>

\* the view state a click on the thumbnail (p, side) leaves: the handler sets
\* the side and the pinned portfolio and nothing else
ThumbClickView(p, side) ==
    [pinned |-> p, side |-> side, highlight |-> highlightList, panel |-> mobilePanel]

\* the view state onFloorPinSelect(p, side) leaves
FloorPinSelectView(p, side) ==
    [pinned |-> p, side |-> side, highlight |-> TRUE, panel |-> "list"]

\* click on a card thumbnail (before / after)
ThumbClick(p, side) ==
    /\ mounted
    /\ p \in ItemsOf(portfolios)
    /\ selectedCardImages' = [selectedCardImages EXCEPT ![p] = side]
    /\ selectedPinnedPortfolioId' = p
    /\ lastDiscard' = "none"
    /\ UNCHANGED << lastSelectIssued, auxVars >>
    /\ lastCommit' = NoCommit
    /\ UNCHANGED << mounted, geoSupported, mapVars, status, selectedComplex,
                    selectedUnitType, portfolios, filters, detailReqs, portfolioReqs,
                    loadingPortfolios, highlightList, mobilePanel >>

\* click on a floor-plan pin: onFloorPinSelect
FloorPinSelect(p, side) ==
    /\ mounted
    /\ selectedUnitType # NoUnit
    /\ p \in ItemsOf(portfolios)
    /\ selectedCardImages' = [selectedCardImages EXCEPT ![p] = side]
    /\ selectedPinnedPortfolioId' = p
    /\ mobilePanel' = "list"
    /\ highlightList' = TRUE
    /\ PortfolioEffect(HighlightIsDep /\ ~highlightList,
                       selectedComplex, selectedUnitType, filters, status, detailReqs)
    /\ lastDiscard' = "none"
    /\ UNCHANGED << lastSelectIssued, auxVars >>
    /\ lastCommit' = NoCommit
    /\ UNCHANGED << mounted, geoSupported, mapVars, selectedComplex, selectedUnitType,
                    portfolios, filters, detailReqs >>

\* the 900 ms highlight timeout: setHighlightList(false)
HighlightTimeout ==
    /\ mounted
    /\ highlightList
    /\ highlightList' = FALSE
    /\ PortfolioEffect(HighlightIsDep,
                       selectedComplex, selectedUnitType, filters, status, detailReqs)
    /\ lastDiscard' = "none"
    /\ UNCHANGED << lastSelectIssued, auxVars >>
    /\ lastCommit' = NoCommit
    /\ UNCHANGED << mounted, geoSupported, mapVars, selectedComplex, selectedUnitType,
                    portfolios, filters, detailReqs, mobilePanel, selectedCardImages,
                    selectedPinnedPortfolioId >>

\* the mobile panel tabs
SetMobilePanel(m) ==
    /\ mounted
    /\ mobilePanel' = m
    /\ lastDiscard' = "none"
    /\ UNCHANGED << lastSelectIssued, auxVars >>
    /\ lastCommit' = NoCommit
    /\ UNCHANGED << mounted, geoSupported, mapVars, status, selectedComplex,
                    selectedUnitType, portfolios, filters, detailReqs, portfolioReqs,
                    loadingPortfolios, highlightList, selectedCardImages,
                    selectedPinnedPortfolioId >>

\* the saveFavorite and requestQuote calls share the cap on calls in flight
HasUserRoom == Cardinality(favoriteReqs) + Cardinality(quoteReqs) < MaxInflight

\* typing in the user-key input: setUserKey(e.target.value)
SetUserKey(k) ==
    /\ mounted
    /\ k # userKey
    /\ userKey' = k
    /\ lastDiscard' = "none"
    /\ lastCommit' = NoCommit
    /\ UNCHANGED << mounted, geoSupported, mapVars, status, selVars, filterDraft, extraVars, favoriteReqs,
                    quoteReqs, pinCard, pinOut, adminVars, lastSelectIssued >>

\* the favorite button of a card: onFavorite up to its await
Favorite(p) ==
    /\ mounted
    /\ p \in ItemsOf(portfolios)
    /\ IF Trim(userKey) = << >>
       THEN /\ status' = "missing_user_key"
            /\ UNCHANGED favoriteReqs
       ELSE /\ HasUserRoom
            /\ favoriteReqs' = favoriteReqs \cup
                   {[userKey |-> Trim(userKey), portfolio |-> p]}
            /\ UNCHANGED status
    /\ lastDiscard' = "none"
    /\ lastCommit' = NoCommit
    /\ UNCHANGED << mounted, geoSupported, mapVars, selVars, filterDraft, extraVars, userKey, quoteReqs,
                    pinCard, pinOut, adminVars, lastSelectIssued >>

\* onFavorite after its await.  The answer of the endpoint has the flag
\* res.ok and may say that the favorite already exists; saveFavorite throws
\* unless res.ok, and onFavorite reads nothing else of the answer.
FavoriteResponse(q, ok, exists) ==
    /\ q \in favoriteReqs
    /\ favoriteReqs' = favoriteReqs \ {q}
    /\ status' = IF ~mounted THEN status
                 ELSE IF ok THEN "favorite_saved" ELSE "favorite_failed"
    /\ lastDiscard' = "none"
    /\ lastCommit' = NoCommit
    /\ UNCHANGED << mounted, geoSupported, mapVars, selVars, filterDraft, extraVars, userKey, quoteReqs,
                    pinCard, pinOut, adminVars, lastSelectIssued >>

\* the quote button of a card: onQuote up to its await
Quote(p) ==
    /\ mounted
    /\ p \in ItemsOf(portfolios)
    /\ IF Trim(userKey) = << >>
       THEN /\ status' = "missing_user_key"
            /\ UNCHANGED quoteReqs
       ELSE /\ HasUserRoom
            /\ quoteReqs' = quoteReqs \cup
                   {[userKey |-> Trim(userKey), portfolio |-> p]}
            /\ UNCHANGED status
    /\ lastDiscard' = "none"
    /\ lastCommit' = NoCommit
    /\ UNCHANGED << mounted, geoSupported, mapVars, selVars, filterDraft, extraVars, userKey, favoriteReqs,
                    pinCard, pinOut, adminVars, lastSelectIssued >>

\* onQuote after its await: requestQuote resolved or rejected
QuoteResponse(q, ok) ==
    /\ q \in quoteReqs
    /\ quoteReqs' = quoteReqs \ {q}
    /\ status' = IF ~mounted THEN status
                 ELSE IF ok THEN "quote_sent" ELSE "quote_failed"
    /\ lastDiscard' = "none"
    /\ lastCommit' = NoCommit
    /\ UNCHANGED << mounted, geoSupported, mapVars, selVars, filterDraft, extraVars, userKey, favoriteReqs,
                    pinCard, pinOut, adminVars, lastSelectIssued >>

\* the pin mapper is handed a card with portfolio_id id and no explicit
\* coordinates: fallbackFloorPin(id, "before"), fallbackFloorPin(id, "after")
MapCard(id) ==
    /\ pinCard' = id
    /\ pinOut' = [side \in Sides |-> fallbackFloorPin(id, side)]
    /\ UNCHANGED << mounted, geoSupported, mapVars, status, selVars, filterDraft, extraVars, userKey,
                    favoriteReqs, quoteReqs, adminVars, hist >>

\* ------------------------------------------------------------- AdminApp
\* AdminApp after construction; the server holds the seed pins
AdminInit ==
    /\ adminStatus = "admin_ready"
    /\ selectedPortfolioId = NoPortfolio
    /\ pins = << >>
    /\ editingPinId = NoPin
    /\ draggingPinId = NoPin
    /\ pinForm = DefaultPinForm
    /\ serverPins = SeedPins
    /\ pinCalls = {}
    /\ ratioIn = << >>
    /\ ratioOut = << >>
    /\ lastMove = NoMove

\* the floor-plan-pin calls in flight share the cap on calls in flight
HasPinRoom == Cardinality(pinCalls) < MaxInflight

\* a call of the floor-plan-pin API: its kind, the pin and payload it
\* carries, the handler that awaits it, and the editingPinId and
\* selectedPortfolioId that handler captured
PinCall(kind, pin, pos, from, editing) ==
    [kind |-> kind, pin |-> pin, pos |-> pos, from |-> from, editing |-> editing,
     portfolio |-> selectedPortfolioId]

\* refreshPins(portfolioId) up to its await, called by handler from
ListCallFor(from, portfolioId) ==
    [kind |-> "list", pin |-> NoPin, pos |-> NoMove, from |-> from, editing |-> NoPin,
     portfolio |-> portfolioId]

\* refreshPins(selectedPortfolioId) up to its await, called by handler from
ListCall(from) == ListCallFor(from, selectedPortfolioId)

\* call q can be started: there is room, and no equal call is in flight
\* (the calls in flight are a set)
CanCall(q) == HasPinRoom /\ q \notin pinCalls

\* everything of the component and its histories that the editor leaves alone
EditorFrame ==
    UNCHANGED << mounted, geoSupported, mapVars, status, selVars, filterDraft, extraVars, userKey,
                 favoriteReqs, quoteReqs, pinCard, pinOut, ratioIn, ratioOut, hist >>

\* refreshAll answered at mount: the first portfolio becomes the selected
\* one, and the effect on [selectedPortfolioId, adminKey] calls refreshPins
AdminLoaded ==
    /\ ~Truthy(selectedPortfolioId)
    /\ CanCall(ListCallFor("effect", AdminPortfolioId))
    /\ selectedPortfolioId' = AdminPortfolioId
    /\ adminStatus' = "admin_loaded"
    /\ pinCalls' = pinCalls \cup {ListCallFor("effect", AdminPortfolioId)}
    /\ UNCHANGED << pins, editingPinId, draggingPinId, pinForm, serverPins, lastMove >>
    /\ EditorFrame

\* the target portfolio selector: setSelectedPortfolioId(portfolioId), and
\* the effect on [selectedPortfolioId, adminKey] calls refreshPins
SelectPortfolio(portfolioId) ==
    /\ Truthy(selectedPortfolioId)
    /\ portfolioId # selectedPortfolioId
    /\ CanCall(ListCallFor("effect", portfolioId))
    /\ selectedPortfolioId' = portfolioId
    /\ pinCalls' = pinCalls \cup {ListCallFor("effect", portfolioId)}
    /\ UNCHANGED << adminStatus, pins, editingPinId, draggingPinId, pinForm, serverPins,
                    lastMove >>
    /\ EditorFrame

\* refreshPins after its await, and what the calling handler does after
\* refreshPins returned
ListResponse(q, ok) ==
    /\ q \in pinCalls
    /\ q.kind = "list"
    /\ pinCalls' = pinCalls \ {q}
    /\ pins' = IF ok THEN RowsOf(serverPins, q.portfolio) ELSE pins
    /\ adminStatus' = IF q.from = "save" THEN "pin_saved"
                      ELSE IF q.from = "remove" THEN "pin_deleted"
                      ELSE IF ok THEN adminStatus
                      ELSE "pins_load_failed"
    /\ UNCHANGED << selectedPortfolioId, editingPinId, draggingPinId, pinForm,
                    serverPins, lastMove >>
    /\ EditorFrame

\* editPin
EditPin(p) ==
    /\ p \in DOMAIN pins
    /\ editingPinId' = p
    /\ pinForm' = pins[p]
    /\ UNCHANGED << adminStatus, selectedPortfolioId, pins, draggingPinId, serverPins,
                    pinCalls, lastMove >>
    /\ EditorFrame

\* mouse down on the button of pin p: onDragStart
DragStart(p) ==
    /\ p \in DOMAIN pins
    /\ draggingPinId' = p
    /\ editingPinId' = p
    /\ pinForm' = pins[p]
    /\ lastMove' = NoMove
    /\ UNCHANGED << adminStatus, selectedPortfolioId, pins, serverPins, pinCalls >>
    /\ EditorFrame

\* every pin follows the pointer
MovedAllPins(list, id, r) == [pin \in DOMAIN list |-> r]

\* prev.map(...): the pin with pin_id id gets the ratio r, the others stay
MovedPins(list, id, r) == [pin \in DOMAIN list |-> IF pin = id THEN r ELSE list[pin]]

\* mouse move over the editor at pointer position i: onEditorMouseMove
EditorMouseMove(i) ==
    /\ IF ~Truthy(draggingPinId)
       THEN UNCHANGED << pinForm, pins, lastMove >>
       ELSE LET r == ratioFromClient(PointerAt(i).x, PointerAt(i).y, EditorRect)
            IN  /\ pinForm' = [x |-> ToFixed2(r.x), y |-> ToFixed2(r.y)]
                /\ pins' = MovedPins(pins, draggingPinId, r)
                /\ lastMove' = r
    /\ UNCHANGED << adminStatus, selectedPortfolioId, editingPinId, draggingPinId,
                    serverPins, pinCalls >>
    /\ EditorFrame

\* mouse up on, or mouse leave of, the editor: onDragEnd up to its await
DragEnd ==
    /\ IF ~Truthy(draggingPinId) \/ ~Truthy(selectedPortfolioId)
       THEN UNCHANGED << draggingPinId, pinCalls >>
       ELSE /\ draggingPinId' = NoPin
            /\ IF draggingPinId \in DOMAIN pins
               THEN /\ CanCall(PinCall("update", draggingPinId, pins[draggingPinId],
                                       "drag", NoPin))
                    /\ pinCalls' = pinCalls \cup
                           {PinCall("update", draggingPinId, pins[draggingPinId],
                                    "drag", NoPin)}
               ELSE UNCHANGED pinCalls
    /\ UNCHANGED << adminStatus, selectedPortfolioId, pins, editingPinId, pinForm,
                    serverPins, lastMove >>
    /\ EditorFrame

\* click on the empty canvas at pointer position i: onFloorPlanClick
FloorPlanClick(i) ==
    /\ IF Truthy(draggingPinId)
       THEN UNCHANGED pinForm
       ELSE LET r == ratioFromClient(PointerAt(i).x, PointerAt(i).y, EditorRect)
            IN  pinForm' = [x |-> ToFixed2(r.x), y |-> ToFixed2(r.y)]
    /\ UNCHANGED << adminStatus, selectedPortfolioId, pins, editingPinId,
                    draggingPinId, serverPins, pinCalls, lastMove >>
    /\ EditorFrame

\* the call savePin makes for the form as it stands
SavePinCall ==
    IF Truthy(editingPinId)
    THEN PinCall("update", editingPinId, pinForm, "save", NoPin)
    ELSE PinCall("create", NoPin, pinForm, "save", NoPin)

\* submit of the pin form: savePin up to its await
SavePin ==
    /\ IF ~Truthy(selectedPortfolioId)
       THEN UNCHANGED pinCalls
       ELSE /\ CanCall(SavePinCall)
            /\ pinCalls' = pinCalls \cup {SavePinCall}
    /\ UNCHANGED << adminStatus, selectedPortfolioId, pins, editingPinId,
                    draggingPinId, pinForm, serverPins, lastMove >>
    /\ EditorFrame

\* the delete button of pin p: removePin up to its await
RemovePin(p) ==
    /\ p \in DOMAIN pins
    /\ IF ~Truthy(selectedPortfolioId)
       THEN UNCHANGED pinCalls
       ELSE /\ CanCall(PinCall("delete", p, NoMove, "remove", editingPinId))
            /\ pinCalls' = pinCalls \cup
                   {PinCall("delete", p, NoMove, "remove", editingPinId)}
    /\ UNCHANGED << adminStatus, selectedPortfolioId, pins, editingPinId,
                    draggingPinId, pinForm, serverPins, lastMove >>
    /\ EditorFrame

\* the pin ids the server can still give a pin created in portfolioId
FreePinIds(portfolioId) ==
    {id \in AllPinIds : PortfolioOfPin(id) = portfolioId} \ DOMAIN serverPins

\* the pin id the server gives a pin created in portfolioId
NewPinId(portfolioId) ==
    CHOOSE id \in FreePinIds(portfolioId) :
        \A other \in FreePinIds(portfolioId) : id <= other

\* the server can carry out call q
ServerAccepts(q) ==
    IF q.kind = "create" THEN FreePinIds(q.portfolio) # {}
    ELSE q.pin \in DOMAIN serverPins

\* the server's pins after it carried out call q
ServerAfter(q) ==
    IF q.kind = "create"
    THEN [id \in DOMAIN serverPins \cup {NewPinId(q.portfolio)} |->
             IF id = NewPinId(q.portfolio) THEN q.pos ELSE serverPins[id]]
    ELSE IF q.kind = "update"
    THEN [serverPins EXCEPT ![q.pin] = q.pos]
    ELSE [id \in DOMAIN serverPins \ {q.pin} |-> serverPins[id]]

\* the status the catch branch of the handler awaiting q sets
FailureStatus(q) ==
    IF q.from = "drag" THEN "pin_position_failed"
    ELSE IF q.from = "save" THEN "pin_save_failed"
    ELSE "pin_delete_failed"

\* onDragEnd, savePin and removePin after the await of their mutation: on
\* success the handler's updates and its call of refreshPins
MutationResponse(q, ok) ==
    /\ q \in pinCalls
    /\ q.kind # "list"
    /\ ok => ServerAccepts(q)
    /\ IF ok
       THEN /\ ListCallFor(q.from, q.portfolio) \notin pinCalls
            /\ serverPins' = ServerAfter(q)
            /\ pinCalls' = (pinCalls \ {q}) \cup {ListCallFor(q.from, q.portfolio)}
            /\ adminStatus' = IF q.from = "drag" THEN "pin_position_saved"
                              ELSE adminStatus
            /\ editingPinId' = IF q.from = "save" THEN NoPin
                               ELSE IF q.from = "remove" /\ q.editing = q.pin THEN NoPin
                               ELSE editingPinId
            /\ pinForm' = IF q.from = "save" THEN DefaultPinForm ELSE pinForm
       ELSE /\ pinCalls' = pinCalls \ {q}
            /\ adminStatus' = FailureStatus(q)
            /\ UNCHANGED << serverPins, editingPinId, pinForm >>
    /\ UNCHANGED << selectedPortfolioId, pins, draggingPinId, lastMove >>
    /\ EditorFrame

\* ratioFromClient is handed the pointer (clientX, clientY) and rectangle rect
RatioProbe(rect, clientX, clientY) ==
    /\ ratioIn = << >>
    /\ ratioIn' = [rect |-> rect, clientX |-> clientX, clientY |-> clientY]
    /\ ratioOut' = ratioFromClient(clientX, clientY, rect)
    /\ UNCHANGED << mounted, geoSupported, mapVars, status, selVars, filterDraft, extraVars, userKey,
                    favoriteReqs, quoteReqs, pinCard, pinOut, editorVars, hist >>

\* component teardown: every effect's cleanup
Unmount ==
    /\ mounted
    /\ mounted' = FALSE
    /\ moveendPending' = FALSE
    /\ timers' = ClearTimeout(CancelAll(timers))
    /\ pinsReqs' = CancelAll(pinsReqs)
    /\ portfolioReqs' = CancelAll(portfolioReqs)
    /\ lastDiscard' = "none"
    /\ UNCHANGED << lastSelectIssued, auxVars >>
    /\ lastCommit' = NoCommit
    /\ UNCHANGED << geoSupported, mapView, bounds, mapMode, geoReqs, nearbyReqs, clusters,
                    complexes, loadingMap, userLocation, nearbyRadiusM, status,
                    selectedComplex, selectedUnitType, portfolios, filters, detailReqs,
                    loadingPortfolios, highlightList, mobilePanel, selectedCardImages,
                    selectedPinnedPortfolioId >>

\* ------------------------------------------------------------- specification
\* the state after the first commit: the map effect created the map and
\* called syncBoundsFromMap, the bounds-pins effect scheduled loadPins
Init ==
    /\ mounted = TRUE
    /\ geoSupported \in BOOLEAN
    /\ mapView = DefaultView
    /\ moveendPending = FALSE
    /\ bounds = DefaultView
    /\ mapMode = "bounds"
    /\ timers = SchedulePins("bounds", DefaultView)
    /\ pinsReqs = {}
    /\ geoReqs = {}
    /\ nearbyReqs = {}
    /\ clusters = EmptyList
    /\ complexes = EmptyList
    /\ loadingMap = FALSE
    /\ userLocation = NoLocation
    /\ nearbyRadiusM = DefaultRadius
    /\ status = "map_ready"
    /\ selectedComplex = NoComplex
    /\ selectedUnitType = NoUnit
    /\ portfolios = EmptyList
    /\ filters = DEFAULT_FILTERS
    /\ detailReqs = {}
    /\ portfolioReqs = {}
    /\ loadingPortfolios = FALSE
    /\ highlightList = FALSE
    /\ mobilePanel = "map"
    /\ selectedCardImages = ReconcileImages(<< >>, EmptyList)
    /\ selectedPinnedPortfolioId = NoPortfolio
    /\ userKey = DefaultUserKey
    /\ favoriteReqs = {}
    /\ quoteReqs = {}
    /\ pinCard = NoPortfolio
    /\ pinOut = << >>
    /\ filterDraft = EmptyDraft
    /\ lastClusterView = NoClusterView
    /\ markerLayer = MarkersOf(clusters, complexes, selectedComplex)
    /\ AdminInit
    /\ lastDiscard = "none"
    /\ lastSelectIssued = NoComplex
    /\ lastCommit = NoCommit

\* a state the program reaches from Init (the first bounds-pins fetch has
\* been answered, so the markers are on the map), from which the selection
\* cascade is explored
BrowseInit ==
    /\ mounted = TRUE
    /\ geoSupported = TRUE
    /\ mapView = DefaultView
    /\ moveendPending = FALSE
    /\ bounds = DefaultView
    /\ mapMode = "bounds"
    /\ timers = {}
    /\ pinsReqs = {}
    /\ geoReqs = {}
    /\ nearbyReqs = {}
    /\ clusters = PinsResult(DefaultView)
    /\ complexes = PinsResult(DefaultView)
    /\ loadingMap = FALSE
    /\ userLocation = NoLocation
    /\ nearbyRadiusM = DefaultRadius
    /\ status = "pins_updated"
    /\ selectedComplex = NoComplex
    /\ selectedUnitType = NoUnit
    /\ portfolios = EmptyList
    /\ filters = DEFAULT_FILTERS
    /\ detailReqs = {}
    /\ portfolioReqs = {}
    /\ loadingPortfolios = FALSE
    /\ highlightList = FALSE
    /\ mobilePanel = "map"
    /\ selectedCardImages = ReconcileImages(<< >>, EmptyList)
    /\ selectedPinnedPortfolioId = NoPortfolio
    /\ userKey = DefaultUserKey
    /\ favoriteReqs = {}
    /\ quoteReqs = {}
    /\ pinCard = NoPortfolio
    /\ pinOut = << >>
    /\ filterDraft = EmptyDraft
    /\ lastClusterView = NoClusterView
    /\ markerLayer = MarkersOf(clusters, complexes, selectedComplex)
    /\ AdminInit
    /\ lastDiscard = "none"
    /\ lastSelectIssued = NoComplex
    /\ lastCommit = NoCommit

\* a state the program reaches from BrowseInit: the marker of complex 1 was
\* clicked, its detail arrived (first unit type selected) and the portfolio
\* list of that unit type was committed
ListInit ==
    /\ mounted = TRUE
    /\ geoSupported = TRUE
    /\ mapView = ComplexPos(1)
    /\ moveendPending = TRUE
    /\ bounds = DefaultView
    /\ mapMode = "bounds"
    /\ timers = {}
    /\ pinsReqs = {}
    /\ geoReqs = {}
    /\ nearbyReqs = {}
    /\ clusters = PinsResult(DefaultView)
    /\ complexes = PinsResult(DefaultView)
    /\ loadingMap = FALSE
    /\ userLocation = NoLocation
    /\ nearbyRadiusM = DefaultRadius
    /\ status = "portfolio_done"
    /\ selectedComplex = 1
    /\ selectedUnitType = FirstUnit(1)
    /\ portfolios = PortfolioResult(1, FirstUnit(1), DEFAULT_FILTERS)
    /\ filters = DEFAULT_FILTERS
    /\ detailReqs = {}
    /\ portfolioReqs = {}
    /\ loadingPortfolios = FALSE
    /\ highlightList = TRUE
    /\ mobilePanel = "list"
    /\ selectedCardImages =
           ReconcileImages(<< >>, PortfolioResult(1, FirstUnit(1), DEFAULT_FILTERS))
    /\ selectedPinnedPortfolioId = NoPortfolio
    /\ userKey = DefaultUserKey
    /\ favoriteReqs = {}
    /\ quoteReqs = {}
    /\ pinCard = NoPortfolio
    /\ pinOut = << >>
    /\ filterDraft = EmptyDraft
    /\ lastClusterView = NoClusterView
    /\ markerLayer = MarkersOf(clusters, complexes, selectedComplex)
    /\ AdminInit
    /\ lastDiscard = "none"
    /\ lastSelectIssued = 1
    /\ lastCommit = [kind |-> "portfolios", pinned |-> NoPortfolio]

\* the buttons of the floor-plan pin layer, rendered while a unit type is selected
FloorPinLayer == IF selectedUnitType # NoUnit THEN floorPlanPins(portfolios) ELSE {}

\* viewport, modes, geolocation and the bounds-pins pipeline
MapNext ==
    \/ \E v \in Views : UserNavigate(v)
    \/ MoveEnd
    \/ \E t \in timers : SettleDelayElapses(t)
    \/ \E t \in timers : LoadPins(t)
    \/ \E r \in pinsReqs, ok \in BOOLEAN : PinsResponse(r, ok)
    \/ FocusNearby
    \/ \E g \in geoReqs, loc \in Locations : GeoSuccess(g, loc)
    \/ \E g \in geoReqs, denied \in BOOLEAN : GeoError(g, denied)
    \/ \E n \in nearbyReqs, ok \in BOOLEAN : NearbyResponse(n, ok)
    \/ BackToBoundsMode
    \/ ResetMapView
    \/ Unmount

\* cluster markers: the click, the moveend it causes, the debounced
\* bounds-pins pipeline, and one switch to nearby mode
ClusterNext ==
    \/ \E k \in Locations, z \in ZoomLevels : ClusterClick(k, z)
    \/ MoveEnd
    \/ \E t \in timers : SettleDelayElapses(t)
    \/ \E t \in timers : LoadPins(t)
    \/ \E r \in pinsReqs, ok \in BOOLEAN : PinsResponse(r, ok)
    \/ geoReqs = {} /\ nearbyReqs = {} /\ mapMode = "bounds" /\ FocusNearby
    \/ \E g \in geoReqs, loc \in Locations : GeoSuccess(g, loc)
    \/ \E n \in nearbyReqs : NearbyResponse(n, TRUE)

\* nothing is scheduled or in flight, so the user sees the settled markers
MapSettled ==
    /\ ~moveendPending
    /\ timers = {}
    /\ \A r \in pinsReqs : r.cancelled
    /\ geoReqs = {}
    /\ nearbyReqs = {}
    /\ detailReqs = {}
    /\ \A r \in portfolioReqs : r.cancelled

\* what changes the markers: a new bounds or nearby result, and the
\* selection of a complex, each started on a settled map
MarkerNext ==
    \/ MoveEnd
    \/ \E t \in timers : SettleDelayElapses(t)
    \/ \E t \in timers : LoadPins(t)
    \/ \E r \in pinsReqs, ok \in BOOLEAN : PinsResponse(r, ok)
    \/ MapSettled /\ mapMode = "bounds" /\ FocusNearby
    \/ \E g \in geoReqs, loc \in Locations : GeoSuccess(g, loc)
    \/ \E n \in nearbyReqs, ok \in BOOLEAN : NearbyResponse(n, ok)
    \/ \E c \in ComplexIds : MapSettled /\ MarkerClick(c)
    \/ \E d \in detailReqs, ok \in BOOLEAN : DetailResponse(d, ok)
    \/ \E r \in portfolioReqs : PortfolioResponse(r, TRUE)

\* what can touch bounds: navigation, the return to bounds mode, and the
\* answers of the four fetches; the nearby search and the one selection
\* start on a settled map
BoundsNext ==
    \/ \E v \in Views : UserNavigate(v)
    \/ MoveEnd
    \/ \E t \in timers : SettleDelayElapses(t)
    \/ \E t \in timers : LoadPins(t)
    \/ \E r \in pinsReqs, ok \in BOOLEAN : PinsResponse(r, ok)
    \/ MapSettled /\ mapMode = "bounds" /\ FocusNearby
    \/ \E g \in geoReqs, loc \in Locations : GeoSuccess(g, loc)
    \/ \E n \in nearbyReqs, ok \in BOOLEAN : NearbyResponse(n, ok)
    \/ BackToBoundsMode
    \/ \E c \in ComplexIds :
           MapSettled /\ selectedComplex = NoComplex /\ MarkerClick(c)
    \/ \E d \in detailReqs, ok \in BOOLEAN : DetailResponse(d, ok)
    \/ \E r \in portfolioReqs, ok \in BOOLEAN : PortfolioResponse(r, ok)

\* the list highlight: set by a floor-plan pin or a marker click, cleared by
\* the timer, and the portfolio fetches it restarts
HighlightNext ==
    \/ \E p \in PortfolioIds, side \in Sides : FloorPinSelect(p, side)
    \/ HighlightTimeout
    \/ \E c \in ComplexIds : MarkerClick(c)
    \/ \E d \in detailReqs, ok \in BOOLEAN : DetailResponse(d, ok)
    \/ \E r \in portfolioReqs, ok \in BOOLEAN : PortfolioResponse(r, ok)

\* the nearby search and its radius selector
RadiusNext ==
    \/ \E radius \in RadiusOptions : SetNearbyRadius(radius)
    \/ FocusNearby
    \/ \E g \in geoReqs, loc \in Locations : GeoSuccess(g, loc)
    \/ \E g \in geoReqs, denied \in BOOLEAN : GeoError(g, denied)
    \/ \E n \in nearbyReqs, ok \in BOOLEAN : NearbyResponse(n, ok)
    \/ BackToBoundsMode

\* complex -> unit type -> portfolio list: everything that triggers or
\* answers a complex-detail or portfolio fetch
FetchNext ==
    \/ \E c \in ComplexIds : MarkerClick(c)
    \/ \E d \in detailReqs, ok \in BOOLEAN : DetailResponse(d, ok)
    \/ \E u \in UnitIds : UnitChipClick(u)
    \/ \E f \in FilterValues : ApplyFilters(f)
    \/ \E r \in portfolioReqs, ok \in BOOLEAN : PortfolioResponse(r, ok)
    \/ HighlightTimeout

\* the card list and the floor-plan pin layer
CardNext ==
    \/ \E p \in PortfolioIds, side \in Sides : ThumbClick(p, side)
    \/ \E p \in PortfolioIds, side \in Sides : FloorPinSelect(p, side)
    \/ \E m \in {"map", "list"} : SetMobilePanel(m)

\* one side at a time: the map is explored before any complex is selected,
\* and the selection cascade starts from the state BrowseInit describes
TourNext ==
    \/ lastSelectIssued = NoComplex /\ MapNext
    \/ (lastSelectIssued # NoComplex \/ BrowseInit) /\ FetchNext

\* the user key and the two card buttons that send it
UserNext ==
    \/ \E k \in UserKeys : SetUserKey(k)
    \/ \E p \in PortfolioIds : Favorite(p)
    \/ \E q \in favoriteReqs, ok \in BOOLEAN, exists \in BOOLEAN :
           FavoriteResponse(q, ok, exists)
    \/ \E p \in PortfolioIds : Quote(p)
    \/ \E q \in quoteReqs, ok \in BOOLEAN : QuoteResponse(q, ok)

\* the floor-plan pin editor of the admin console
EditorNext ==
    \/ AdminLoaded
    \/ \E portfolioId \in AdminPortfolioIds : SelectPortfolio(portfolioId)
    \/ \E q \in pinCalls, ok \in BOOLEAN : ListResponse(q, ok)
    \/ \E p \in AllPinIds : EditPin(p)
    \/ \E p \in AllPinIds : DragStart(p)
    \/ \E i \in PointerIds : EditorMouseMove(i)
    \/ DragEnd
    \/ \E i \in PointerIds : FloorPlanClick(i)
    \/ SavePin
    \/ \E p \in AllPinIds : RemovePin(p)
    \/ \E q \in pinCalls, ok \in BOOLEAN : MutationResponse(q, ok)

\* the target portfolio selector together with edit, submit in edit mode
\* and delete; the server answers every list call
SwitchNext ==
    \/ AdminLoaded
    \/ \E portfolioId \in AdminPortfolioIds : SelectPortfolio(portfolioId)
    \/ \E q \in pinCalls : ListResponse(q, TRUE)
    \/ \E p \in AllPinIds : EditPin(p)
    \/ Truthy(editingPinId) /\ SavePin
    \/ \E p \in AllPinIds : RemovePin(p)
    \/ \E q \in pinCalls, ok \in BOOLEAN : MutationResponse(q, ok)

\* the drag gestures of the pin editor and the calls they start
DragNext ==
    \/ AdminLoaded
    \/ \E q \in pinCalls, ok \in BOOLEAN : ListResponse(q, ok)
    \/ \E p \in PinIds : DragStart(p)
    \/ \E i \in PointerIds : EditorMouseMove(i)
    \/ DragEnd
    \/ \E q \in pinCalls, ok \in BOOLEAN : MutationResponse(q, ok)

\* the pin form: pointer down and up on a pin, clicks on the empty canvas,
\* the submit button and the calls it starts
FormNext ==
    \/ AdminLoaded
    \/ \E q \in pinCalls, ok \in BOOLEAN : ListResponse(q, ok)
    \/ \E p \in PinIds : DragStart(p)
    \/ DragEnd
    \/ \E i \in PointerIds : FloorPlanClick(i)
    \/ SavePin
    \/ \E q \in pinCalls, ok \in BOOLEAN : MutationResponse(q, ok)

\* the filter row of one selected complex
FilterNext ==
    \/ \E d \in DraftValues : SetFilterDraft(d)
    \/ \E f \in FilterValues : ApplyFilters(f)
    \/ \E r \in portfolioReqs, ok \in BOOLEAN : PortfolioResponse(r, ok)

\* the pointer-to-percentage mapping on the positions where whole
\* percentages are rendered and on pointers inside and outside the rectangle
RatioNext ==
    /\ ratioIn = << >>
    /\ \/ \E rect \in Rects, x \in 0..100, y \in 0..100 :
              RatioProbe(rect, renderedAt(x, y, rect).x, renderedAt(x, y, rect).y)
       \/ \E rect \in Rects :
              \E clientX \in ProbeCoords(rect.left, rect.width),
                 clientY \in ProbeCoords(rect.top, rect.height) :
                  RatioProbe(rect, clientX, clientY)

\* the floor-plan pin mapper on cards without explicit coordinates
PinNext == \E id \in PinCardIds : MapCard(id)

Next ==
    \/ MapNext
    \/ \E radius \in RadiusOptions : SetNearbyRadius(radius)
    \/ FetchNext
    \/ CardNext
    \/ UserNext
    \/ \E k \in Locations, z \in ZoomLevels : ClusterClick(k, z)
    \/ \E d \in DraftValues : SetFilterDraft(d)
    \/ PinNext
    \/ EditorNext
    \/ RatioNext

\* the list side of one selected complex: unit type chips, filters, the
\* portfolio fetch, cards and floor-plan pins
ListNext ==
    \/ \E u \in UnitIds : UnitChipClick(u)
    \/ \E f \in FilterValues : ApplyFilters(f)
    \/ \E r \in portfolioReqs, ok \in BOOLEAN : PortfolioResponse(r, ok)
    \/ \E p \in PortfolioIds, side \in Sides : ThumbClick(p, side)
    \/ \E p \in PortfolioIds, side \in Sides : FloorPinSelect(p, side)
    \/ HighlightTimeout

\* the whole component
Spec == Init /\ [][Next]_vars

\* the map side alone (it neither reads nor writes the selection state)
MapSpec == Init /\ [][MapNext]_vars

\* the fetch cascade of the selection side while the component is mounted
FetchSpec == BrowseInit /\ [][FetchNext]_vars

\* the selection side: fetch cascade, card list and floor-plan pins
SelSpec == BrowseInit /\ [][FetchNext \/ CardNext]_vars

\* the four fetch pipelines, the map side first and the selection side after it
TourSpec == Init /\ [][TourNext]_vars

\* favorites and quote requests on the cards of one displayed list
UserSpec == ListInit /\ [][UserNext]_vars

\* pointer down and up, clicks on the canvas and the pin form's submit button
FormSpec == BrowseInit /\ [][FormNext]_vars

\* dragging alone: loading the pins, pointer down, move and up, and the
\* calls pointer-up starts
DragSpec == BrowseInit /\ [][DragNext]_vars

\* the pointer-to-percentage mapping on every probed input
RatioSpec == BrowseInit /\ [][RatioNext]_vars

\* the marker layer under new results and selections
MarkerSpec == BrowseInit /\ [][MarkerNext]_vars

\* the list highlight of a displayed list
HighlightSpec == ListInit /\ [][HighlightNext]_vars

\* the nearby search under every choice of the radius
RadiusSpec == BrowseInit /\ [][RadiusNext]_vars

\* bounds under navigation, mode switches and fetch answers
BoundsSpec == BrowseInit /\ [][BoundsNext]_vars

\* the pin editor while the operator switches between portfolios
SwitchSpec == BrowseInit /\ [][SwitchNext]_vars

\* cluster markers of a displayed bounds result
ClusterSpec == BrowseInit /\ [][ClusterNext]_vars

\* the filter drafts and the applied filters of a displayed list
FilterSpec == ListInit /\ [][FilterNext]_vars

\* the synthetic pin positions of every card id
PinSpec == BrowseInit /\ [][PinNext]_vars

\* the list side while complex 1 stays selected
ListSpec == ListInit /\ [][ListNext]_vars

\* ------------------------------------------------------------- claims: map
\* a bounds-pins fetch whose trigger is no longer current: the bounds it was
\* scheduled for are not the current bounds, the mode is no longer bounds,
\* or the component is gone
PinsSuperseded(r) == r.bounds # bounds \/ mapMode # "bounds" \/ ~mounted

\* a step in which the answer of the cancelled bounds-pins fetch r arrives
StalePinsCompletion(r) == r \in pinsReqs /\ r.cancelled /\ r \notin pinsReqs'

\* C1: a bounds-pins fetch that completes (resolved or rejected) after its
\* Bounds value or map mode was superseded, or after teardown, is discarded:
\* every superseded fetch in flight carries the cancellation mark, and the
\* step in which a marked fetch completes leaves clusters, complexes, status
\* and loadingMap as they were.
C1_StalePinsDiscarded ==
    /\ [](\A r \in pinsReqs : PinsSuperseded(r) => r.cancelled)
    /\ [][\A r \in pinsReqs : StalePinsCompletion(r) =>
              UNCHANGED << clusters, complexes, status, loadingMap >>]_vars

\* a superseded bounds-pins answer has just been dropped while newer bounds are current
C1_Witness ==
    /\ lastDiscard = "pins"
    /\ mounted
    /\ mapMode = "bounds"
    /\ bounds # DefaultView

\* a step that issues a bounds-pins fetch: a call appears among the calls in flight
PinsFetchIssued(r) ==
    /\ r \in pinsReqs'
    /\ r \notin pinsReqs
    /\ [r EXCEPT !.cancelled = FALSE] \notin pinsReqs

\* C4: at most one loadPins timeout is scheduled at any time, it is the one
\* for the current Bounds in bounds mode, and a bounds-pins fetch is issued
\* only by that timeout once its settle delay has elapsed, for the current
\* Bounds, leaving no timeout scheduled (so a burst of navigation events
\* issues one fetch, for the last Bounds).
C4_DebouncedFetch ==
    /\ [](/\ Cardinality(timers) <= 1
          /\ \A t \in timers : t.bounds = bounds /\ ~t.cancelled /\ mapMode = "bounds")
    /\ [][\A r \in pinsReqs' : PinsFetchIssued(r) =>
              /\ \E t \in timers : t.elapsed /\ t.bounds = r.bounds
              /\ r.bounds = bounds
              /\ ~r.cancelled
              /\ timers' = {}]_vars

\* after navigation away from the initial view the one fetch for the last
\* Bounds is in flight and no timeout is left
C4_Witness ==
    /\ bounds # DefaultView
    /\ timers = {}
    /\ \E r \in pinsReqs : ~r.cancelled /\ r.bounds = bounds
    /\ \E r \in pinsReqs : r.cancelled

\* C5: once the mode is nearby, every bounds-pins fetch still pending or in
\* flight is cancelled (no timeout scheduled, every call marked), and the
\* displayed result is the nearby one: clusters empty, complexes the items
\* of a nearby response.
C5_NearbyDisplaysNearby ==
    mapMode = "nearby" =>
        /\ timers = {}
        /\ \A r \in pinsReqs : r.cancelled
        /\ clusters = EmptyList
        /\ complexes.src = "nearby"

\* in nearby mode the answer of the bounds-pins fetch A has just been dropped
C5_Witness ==
    /\ mapMode = "nearby"
    /\ lastDiscard = "pins"
    /\ complexes.src = "nearby"

\* C6: results fetched by the previous mode are never displayed while the
\* new mode is current: in bounds mode no nearby result is displayed, in
\* nearby mode no bounds result is.
C6_NoOldModeResults ==
    /\ mapMode = "bounds" => complexes.src # "nearby"
    /\ mapMode = "nearby" => complexes.src # "bounds" /\ clusters.src # "bounds"

\* a nearby fetch whose position is no longer the user location: the mode
\* returned to bounds (userLocation reset) or a newer position replaced it
NearbySuperseded(n) == n.loc # userLocation

\* C7: the late response of a superseded nearby fetch changes neither
\* mapMode nor clusters/complexes.
C7_StaleNearbyDiscarded ==
    [][\A n \in nearbyReqs : (n \notin nearbyReqs' /\ NearbySuperseded(n)) =>
           UNCHANGED << mapMode, clusters, complexes >>]_vars

\* ------------------------------------------------------------- claims: selection
\* the query the current selection stands for
IsCurrentQuery(r) ==
    r.complex = selectedComplex /\ r.unit = selectedUnitType /\ r.filters = filters

\* a step in which the answer of the cancelled portfolio fetch r arrives
StalePortfolioCompletion(r) == r \in portfolioReqs /\ r.cancelled /\ r \notin portfolioReqs'

\* C2: of the portfolio fetches in flight only the one issued by the last
\* trigger is unmarked (every fetch for another complex, unit type or
\* filters carries the cancellation mark, and at most one fetch is
\* unmarked), and the step in which a marked fetch completes changes
\* neither portfolios nor status, whatever the arrival order.
C2_OnlyLastPortfolioFetchCommits ==
    /\ [](\A r \in portfolioReqs : ~IsCurrentQuery(r) => r.cancelled)
    /\ [](Cardinality({r \in portfolioReqs : ~r.cancelled}) <= 1)
    /\ [][\A r \in portfolioReqs : StalePortfolioCompletion(r) =>
              UNCHANGED << portfolios, status >>]_vars

\* two triggers were issued before any answer: the first one's answer has
\* just been dropped, the last one is still in flight, nothing is committed
C2_Witness ==
    /\ lastDiscard = "portfolio"
    /\ portfolios = EmptyList
    /\ \E r \in portfolioReqs : ~r.cancelled /\ IsCurrentQuery(r)

\* C3: whenever a complex detail is committed to selectedComplex it is the
\* detail of the most recently issued selection.
C3_OnlyLastSelectionCommits ==
    [][selectedComplex' # selectedComplex => selectedComplex' = lastSelectIssued]_vars

\* a step that issues the selection of complex c: handleSelectComplex(c) is called
SelectionIssued(c) ==
    /\ lastSelectIssued' = c
    /\ \E d \in detailReqs' : d.complex = c
    /\ status' = "loading_complex"

\* C8: with a complex, a unit type and a pinned portfolio (with its pin)
\* selected, the step that issues the selection of a different complex
\* leaves selectedUnitType and the pinned portfolio null, before the detail
\* of the new complex arrives.
C8_CascadeResetOnSelect ==
    [][\A c \in ComplexIds :
           (/\ selectedComplex # NoComplex
            /\ selectedUnitType # NoUnit
            /\ selectedPinnedPortfolioId # NoPortfolio
            /\ c # selectedComplex
            /\ SelectionIssued(c))
           => (selectedUnitType' = NoUnit /\ selectedPinnedPortfolioId' = NoPortfolio)]_vars

\* C9: the selection chain is contained and consistent: a selected unit
\* type is one of the selected complex's unit types, and a pinned portfolio
\* implies a selected unit type and complex and is a card of a list fetched
\* for that complex and unit type.
C9_SelectionChainConsistent ==
    /\ selectedUnitType # NoUnit => selectedUnitType \in UnitsOfComplex(selectedComplex)
    /\ selectedPinnedPortfolioId # NoPortfolio =>
           /\ selectedUnitType # NoUnit
           /\ selectedComplex # NoComplex
           /\ portfolios # EmptyList
           /\ portfolios.complex = selectedComplex
           /\ portfolios.unit = selectedUnitType
           /\ selectedPinnedPortfolioId \in ItemsOf(portfolios)

\* C10 as claimed: while a unit type is selected, a list in view is the
\* response to the fetch for the currently selected complex, unit type and
\* filters (the empty list shown before the first response is not counted).
C10_ListAlwaysCurrent ==
    (selectedUnitType # NoUnit /\ portfolios # EmptyList) =>
        portfolios = PortfolioResult(selectedComplex, selectedUnitType, filters)

\* C10 amended: every portfolio list that is committed is the response to
\* the fetch issued for the complex, unit type and filters selected at the
\* time of the commit; a list fetched for the previous unit type or filters
\* stays in view only until then.
C10_CommittedListIsCurrent ==
    [][(portfolios' # portfolios /\ portfolios' # EmptyList) =>
           /\ selectedUnitType' # NoUnit
           /\ portfolios' = PortfolioResult(selectedComplex', selectedUnitType', filters')]_vars

\* a list was committed after a filter change and answers the current selection
C10_Witness ==
    /\ status = "portfolio_done"
    /\ filters # DEFAULT_FILTERS
    /\ selectedUnitType # NoUnit
    /\ portfolios = PortfolioResult(selectedComplex, selectedUnitType, filters)

\* C11: the step that commits a refreshed portfolio list clears the pinned
\* portfolio when its id is not in the new list and keeps it when it is.
C11_PinnedFollowsRefreshedList ==
    [][lastCommit'.kind = "portfolios" =>
           selectedPinnedPortfolioId' =
               IF selectedPinnedPortfolioId \in ItemsOf(portfolios')
               THEN selectedPinnedPortfolioId
               ELSE NoPortfolio]_vars

\* a list was just committed that no longer holds the card that was pinned
C11_Witness ==
    /\ lastCommit.kind = "portfolios"
    /\ lastCommit.pinned # NoPortfolio
    /\ lastCommit.pinned \notin ItemsOf(portfolios)
    /\ selectedPinnedPortfolioId = NoPortfolio

\* C12: every portfolio fetch carries the resolved filters: with favorite
\* vendor ids [7], the automatic favorite-vendor filter enabled and no
\* explicit vendor id the request carries vendor id 7, and an explicit
\* vendor id is carried as it is.
C12_FetchCarriesResolvedVendor ==
    \A r \in portfolioReqs :
        LET favoriteVendorIds == << 7 >>
            autoFavoriteVendorFilter == TRUE
            explicit == FilterVendorId(r.filters)
            resolved == IF explicit # NoVendor THEN explicit
                        ELSE IF autoFavoriteVendorFilter /\ Len(favoriteVendorIds) > 0
                        THEN favoriteVendorIds[1]
                        ELSE NoVendor
        IN  QueryVendorId(r.filters) = resolved

\* C13: from any state, selecting portfolio p with side s by its card
\* thumbnail and by its floor-plan pin lead to the same view state (pinned
\* portfolio, side, list highlight, panel).
C13_SameViewFromEitherSelection ==
    selectedUnitType # NoUnit =>
        \A p \in ItemsOf(portfolios), side \in Sides :
            ThumbClickView(p, side) = FloorPinSelectView(p, side)

\* C14: for every integer portfolio id without explicit coordinates the
\* synthetic pin of each side is x = 18 + (id*17 mod 64), y = 16 + (id*13
\* mod 66), nudged by (6, 4) and capped at 92 for the after side, and lies
\* within [0,100] x [0,100].
C14_FallbackPinInRange ==
    \A side \in DOMAIN pinOut :
        LET x == 18 + ((pinCard * 17) % 64)
            y == 16 + ((pinCard * 13) % 66)
        IN  /\ pinOut[side] = IF side = "before" THEN [x |-> x, y |-> y]
                              ELSE [x |-> Min(92, x + 6), y |-> Min(92, y + 4)]
            /\ pinOut[side].x \in 0..100
            /\ pinOut[side].y \in 0..100

\* C15: the portfolio ids with at least one pin in the floor-plan pin layer
\* are exactly the ids of the displayed portfolio list.
C15_PinLayerMatchesList ==
    {pin.portfolioId : pin \in FloorPinLayer} = ItemsOf(portfolios)

\* a list with a card that has no before image is displayed with its pins
C15_Witness ==
    /\ selectedUnitType # NoUnit
    /\ \E p \in ItemsOf(portfolios) : ~HasBeforeImage(p)
    /\ FloorPinLayer # {}

\* C16: every displayed card without explicit floor-plan pins has exactly
\* one synthetic pin.
C16_OneSyntheticPinPerCard ==
    \A p \in ItemsOf(portfolios) :
        (\A side \in Sides : ~HasExplicitPosition(p, side)) =>
            Cardinality({pin \in floorPlanPins(portfolios) : pin.portfolioId = p}) = 1

\* C17: a geolocation failure sets one status when permission was denied
\* and a different one otherwise, and in both cases leaves mapMode and
\* userLocation as they were and issues no nearby fetch.
C17_GeoErrorKeepsMode ==
    [][\A g \in geoReqs, denied \in BOOLEAN :
           (mounted /\ GeoError(g, denied)) =>
               /\ status' = (IF denied THEN "geo_denied" ELSE "geo_failed")
               /\ mapMode' = mapMode
               /\ userLocation' = userLocation
               /\ nearbyReqs' = nearbyReqs]_vars

\* in nearby mode a new position request was denied: the mode and the user
\* location are the prior ones
C17_Witness ==
    /\ status = "geo_denied"
    /\ mapMode = "nearby"
    /\ userLocation # NoLocation

\* C18: every successful geolocation result recenters the viewport on the
\* reported position and switches mapMode to nearby: the success callback
\* leaves the viewport on the position, and when the operation it started
\* has run to its end the mode is nearby.
C18_GeoSuccessSwitchesMode ==
    [][/\ \A g \in geoReqs, loc \in Locations :
              (mounted /\ GeoSuccess(g, loc)) => mapView' = loc
       /\ \A n \in nearbyReqs, ok \in BOOLEAN :
              (mounted /\ NearbyResponse(n, ok)) => mapMode' = "nearby"]_vars

\* C19: when a bounds-pins, nearby, complex-detail or portfolio fetch that
\* was not superseded fails, the failure sets the status message and
\* leaves clusters, complexes, selectedComplex, selectedUnitType,
\* portfolios and mapMode as they were.
C19_FailureOnlySetsStatus ==
    [][/\ \A r \in pinsReqs :
              (mounted /\ ~r.cancelled /\ PinsResponse(r, FALSE)) =>
                  /\ status' = "pins_error"
                  /\ UNCHANGED << clusters, complexes, selectedComplex,
                                  selectedUnitType, portfolios, mapMode >>
       /\ \A n \in nearbyReqs :
              (mounted /\ NearbyResponse(n, FALSE)) =>
                  /\ status' = "nearby_error"
                  /\ UNCHANGED << clusters, complexes, selectedComplex,
                                  selectedUnitType, portfolios, mapMode >>
       /\ \A d \in detailReqs :
              (mounted /\ DetailResponse(d, FALSE)) =>
                  /\ status' = "complex_error"
                  /\ UNCHANGED << clusters, complexes, selectedComplex,
                                  selectedUnitType, portfolios, mapMode >>
       /\ \A r \in portfolioReqs :
              (mounted /\ ~r.cancelled /\ PortfolioResponse(r, FALSE)) =>
                  /\ status' = "portfolio_error"
                  /\ UNCHANGED << clusters, complexes, selectedComplex,
                                  selectedUnitType, portfolios, mapMode >>]_vars

\* a portfolio fetch failed while the list of an earlier fetch is displayed
C19_Witness ==
    /\ status = "portfolio_error"
    /\ selectedUnitType # NoUnit
    /\ portfolios # EmptyList
    /\ complexes # EmptyList

\* a key that is empty or holds white space only
IsBlank(k) == \A i \in 1..Len(k) : k[i] = " "

\* C20: saving a favorite or requesting a quote while the user key is empty
\* or only white space issues no network call, sets the missing-user-key
\* status and leaves every other piece of state unchanged.
C20_BlankKeyIssuesNoCall ==
    [][\A p \in PortfolioIds :
          (IsBlank(userKey) /\ (Favorite(p) \/ Quote(p))) =>
              /\ status' = "missing_user_key"
              /\ UNCHANGED << favoriteReqs, quoteReqs, userKey, mounted,
                              geoSupported, mapVars, selVars, filterDraft, extraVars, pinCard, pinOut,
                              adminVars >>]_vars

\* a button was pressed with a key of white space only, and nothing was sent
C20_Witness ==
    /\ status = "missing_user_key"
    /\ userKey # << >>
    /\ IsBlank(userKey)
    /\ favoriteReqs = {}
    /\ quoteReqs = {}

\* C21: when the favorite endpoint answers that the favorite already
\* exists, saving the favorite ends in the success status, not the failure
\* status.
C21_AlreadyExistsIsSuccess ==
    [][\A q \in favoriteReqs, ok \in BOOLEAN :
          (mounted /\ FavoriteResponse(q, ok, TRUE)) => status' = "favorite_saved"]_vars

\* a step of a handler the user starts: map navigation, buttons, chips,
\* markers, cards, pins and the key input
UserStep ==
    \/ \E v \in Views : UserNavigate(v)
    \/ \E radius \in RadiusOptions : SetNearbyRadius(radius)
    \/ FocusNearby
    \/ BackToBoundsMode
    \/ ResetMapView
    \/ \E c \in ComplexIds : MarkerClick(c)
    \/ \E u \in UnitIds : UnitChipClick(u)
    \/ \E f \in FilterValues : ApplyFilters(f)
    \/ \E p \in PortfolioIds, side \in Sides : ThumbClick(p, side)
    \/ \E p \in PortfolioIds, side \in Sides : FloorPinSelect(p, side)
    \/ \E m \in {"map", "list"} : SetMobilePanel(m)
    \/ \E k \in UserKeys : SetUserKey(k)
    \/ \E p \in PortfolioIds : Favorite(p) \/ Quote(p)
    \/ \E d \in DraftValues : SetFilterDraft(d)

\* C22: no request is retried automatically.  For the portfolio fetch: in
\* the step that follows a failed fetch, the same query is issued again only
\* by a handler the user starts.
C22_NoAutomaticRetry ==
    [][(lastCommit.kind = "failed" /\ ~UserStep) =>
           lastCommit.query \notin (portfolioReqs' \ portfolioReqs)]_vars

\* ------------------------------------------------------------- claims: pin editor
\* the editor is in Dragging{p}: the guards of the handlers test draggingPinId
\* for truth
Dragging(p) == Truthy(draggingPinId) /\ draggingPinId = p

\* the editor is Idle
Idle == ~Truthy(draggingPinId)

\* C23: pointer-up while dragging pin p issues exactly one update call
\* carrying p's coordinates from the last pointer-move; if that call fails
\* the error is put in the status and p's local position stays where it
\* was dragged, and if it succeeds the pin list is reloaded from the server.
C23_PointerUpPersistsDraggedPosition ==
    [][/\ \A p \in PinIds :
              (Dragging(p) /\ DragEnd) =>
                  \E q \in pinCalls' \ pinCalls :
                      /\ pinCalls' \ pinCalls = {q}
                      /\ q.kind = "update"
                      /\ q.pin = p
                      /\ lastMove # NoMove => q.pos = lastMove
       /\ \A q \in pinCalls :
              (q.from = "drag" /\ MutationResponse(q, FALSE)) =>
                  /\ adminStatus' = "pin_position_failed"
                  /\ pins' = pins
       /\ \A q \in pinCalls :
              (q.from = "drag" /\ MutationResponse(q, TRUE)) =>
                  ListCall("drag") \in pinCalls' \ pinCalls]_vars

\* C24: the pointer-to-percentage mapping round-trips: normalizing the
\* pointer position at which (x, y) of [0,100] x [0,100] is rendered in a
\* rectangle of positive width and height returns (x, y), and the
\* normalized result of every pointer position, also outside the rectangle,
\* lies in [0,100] x [0,100].
C24_PointerMappingRoundTrips ==
    ratioIn # << >> =>
        /\ ratioOut.x \in 0..Percent(100)
        /\ ratioOut.y \in 0..Percent(100)
        /\ \A x \in 0..100 :
               ratioIn.clientX = ratioIn.rect.left + (x * ratioIn.rect.width) \div 100
                   => ratioOut.x = Percent(x)
        /\ \A y \in 0..100 :
               ratioIn.clientY = ratioIn.rect.top + (y * ratioIn.rect.height) \div 100
                   => ratioOut.y = Percent(y)

\* the position where (25%, 75%) is rendered in a rectangle away from the
\* viewport's origin was normalized to (25%, 75%)
C24_Witness ==
    /\ ratioIn # << >>
    /\ ratioIn.rect.left # 0
    /\ ratioIn.rect.top # 0
    /\ ratioIn.clientX = ratioIn.rect.left + (25 * ratioIn.rect.width) \div 100
    /\ ratioIn.clientY = ratioIn.rect.top + (75 * ratioIn.rect.height) \div 100
    /\ ratioOut = [x |-> Percent(25), y |-> Percent(75)]

\* C28: from Idle, pointer-down on any existing pin p, whatever its numeric
\* id, moves the editor to Dragging{p}, sets the edit form and editingPinId
\* to p's values and issues no network call; the editor is in Dragging for
\* at most one pin at a time.
C28_PointerDownEntersDragging ==
    [][\A p \in PinIds :
          (Idle /\ DragStart(p)) =>
              /\ Dragging(p)'
              /\ \A other \in PinIds \ {p} : ~Dragging(other)'
              /\ editingPinId' = p
              /\ pinForm' = pins[p]
              /\ pinCalls' = pinCalls]_vars

\* the distance of two ratios
Dist(a, b) == IF a >= b THEN a - b ELSE b - a

\* C29: a pointer-move while in Dragging{p} sets pin p's local coordinates
\* to the clamped normalized pointer position and the form coordinates to
\* that position (rounded to the form's two decimals), leaves every other
\* pin unchanged and issues no network call; a pointer-move while Idle
\* changes neither the pin list nor the form.
C29_PointerMoveIsLocal ==
    [][\A i \in PointerIds :
          EditorMouseMove(i) =>
              LET px == PointerAt(i).x - EditorRect.left
                  py == PointerAt(i).y - EditorRect.top
                  x == IF px <= 0 THEN 0
                       ELSE IF px >= EditorRect.width THEN Percent(100)
                       ELSE (px * Percent(100)) \div EditorRect.width
                  y == IF py <= 0 THEN 0
                       ELSE IF py >= EditorRect.height THEN Percent(100)
                       ELSE (py * Percent(100)) \div EditorRect.height
              IN  /\ pinCalls' = pinCalls
                  /\ serverPins' = serverPins
                  /\ Idle => (pins' = pins /\ pinForm' = pinForm)
                  /\ \A p \in DOMAIN pins :
                         Dragging(p) =>
                             /\ DOMAIN pins' = DOMAIN pins
                             /\ pins'[p] = [x |-> x, y |-> y]
                             /\ \A other \in DOMAIN pins \ {p} :
                                    pins'[other] = pins[other]
                             /\ Dist(pinForm'.x, x) <= 5
                             /\ Dist(pinForm'.y, y) <= 5]_vars

\* pin 1 is being dragged and was moved to a position inside the element
\* whose percentage has more than two decimals; pin 0 is where it was
C29_Witness ==
    /\ Dragging(1)
    /\ 1 \in DOMAIN pins
    /\ lastMove # NoMove
    /\ pins[1] = lastMove
    /\ pinForm.x # pins[1].x
    /\ pins[1].x \notin {0, Percent(100)}
    /\ 0 \in DOMAIN pins
    /\ pins[0] = SeedPins[0]

\* C30: a click on the empty floor-plan canvas while Idle only writes the
\* click's normalized coordinates into the creation form: the pin list is
\* unchanged, no pin is created and no network call is issued, and the form
\* submission that follows creates a new pin; the same click while Dragging
\* changes nothing.  (Stated for an editor whose portfolio is selected.)
C30_CanvasClickPrefillsCreation ==
    [][\A i \in PointerIds :
          (Truthy(selectedPortfolioId) /\ FloorPlanClick(i)) =>
              LET r == ratioFromClient(PointerAt(i).x, PointerAt(i).y, EditorRect)
              IN  /\ pins' = pins
                  /\ serverPins' = serverPins
                  /\ pinCalls' = pinCalls
                  /\ ~Idle => pinForm' = pinForm
                  /\ Idle => /\ Dist(pinForm'.x, r.x) <= 5
                             /\ Dist(pinForm'.y, r.y) <= 5
                             /\ SavePinCall'.kind = "create"]_vars

C26_GallerySideDefaultsAndIsKept ==
    [][\A p \in ItemsOf(portfolios') :
          /\ p \notin DOMAIN selectedCardImages =>
                 /\ p \in DOMAIN selectedCardImages'
                 /\ selectedCardImages'[p] = IF HasAfterImage(p) THEN "after" ELSE "before"
          /\ (p \in DOMAIN selectedCardImages /\ portfolios' # portfolios) =>
                 /\ p \in DOMAIN selectedCardImages'
                 /\ selectedCardImages'[p] = selectedCardImages[p]]_vars

\* ------------------------------------------------------------- claims: detail
\* C27: when a complex detail response is committed, the first unit type of
\* the complex is selected and a portfolio fetch for it is issued; when the
\* complex has no unit types, selectedUnitType is null, the portfolio list
\* is emptied, the status is the no-types text and no portfolio fetch is live.
C27_DetailCommitSelectsFirstUnit ==
    [][\A d \in detailReqs :
          (mounted /\ DetailResponse(d, TRUE)) =>
              LET units == UnitTypesOf(d.complex)
              IN  /\ selectedComplex' = d.complex
                  /\ IF Len(units) > 0
                     THEN /\ selectedUnitType' = units[1]
                          /\ [complex |-> d.complex, unit |-> units[1],
                               filters |-> filters, cancelled |-> FALSE] \in portfolioReqs'
                          /\ \A r \in portfolioReqs' :
                                 ~r.cancelled => (r.complex = d.complex /\ r.unit = units[1])
                     ELSE /\ selectedUnitType' = NoUnit
                          /\ portfolios' = EmptyList
                          /\ status' = "no_unit_types"
                          /\ \A r \in portfolioReqs' : r.cancelled]_vars

\* the detail of a complex with no unit types was committed while a list of
\* another complex was displayed or being fetched
C27_Witness ==
    /\ selectedComplex # NoComplex
    /\ Len(UnitTypesOf(selectedComplex)) = 0
    /\ selectedUnitType = NoUnit
    /\ portfolios = EmptyList
    /\ status = "no_unit_types"
    /\ portfolioReqs # {}

\* ------------------------------------------------------------- claims: map modes
\* a moveend / zoomend event reported by the map
NavigationEvent == MoveEnd \/ \E v \in Views : UserNavigate(v)

\* C31: while mapMode is nearby, a navigation event schedules no loadPins
\* timeout and no step issues a bounds-pins fetch, yet the navigation event
\* sets bounds to the current viewport.
C31_NearbyNavigationFetchesNothing ==
    [][/\ (mapMode = "nearby" /\ NavigationEvent) =>
              /\ bounds' = mapView'
              /\ timers' = {}
       /\ (mapMode = "nearby" /\ mapMode' = "nearby") =>
              /\ timers' = {}
              /\ \A r \in pinsReqs' : r.cancelled /\ r \in CancelAll(pinsReqs)]_vars

\* in nearby mode the user moved the map away from the user location: bounds
\* follows the viewport and nothing is scheduled
C31_Witness ==
    /\ mapMode = "nearby"
    /\ userLocation # NoLocation
    /\ ~moveendPending
    /\ bounds = mapView
    /\ bounds # userLocation
    /\ complexes.src = "nearby"

\* C32: a click on a cluster marker recentres the map on the cluster at zoom
\* min(max(zoom + 2, 7), 18) and neither schedules nor issues a fetch; a
\* bounds-pins fetch is issued only by an elapsed loadPins timeout, and a
\* timeout is scheduled only by a viewport change in bounds mode.
C32_ClusterClickOnlyMovesTheMap ==
    [][/\ \A k \in Locations, z \in ZoomLevels :
              ClusterClick(k, z) =>
                  /\ mapView' = ClusterPos(k)
                  /\ lastClusterView'.zoom =
                         (IF (IF z + 2 > 7 THEN z + 2 ELSE 7) < 18
                          THEN (IF z + 2 > 7 THEN z + 2 ELSE 7) ELSE 18)
                  /\ UNCHANGED << timers, pinsReqs, nearbyReqs, geoReqs, detailReqs,
                                  portfolioReqs, bounds, clusters, complexes >>
       /\ \A r \in pinsReqs' \ (pinsReqs \cup CancelAll(pinsReqs)) :
              \E t \in timers : t.elapsed /\ t.bounds = r.bounds /\ LoadPins(t)
       /\ \A t \in timers' \ timers :
              ~t.elapsed =>
                  /\ MoveEnd
                  /\ mapMode' = "bounds"
                  /\ t.bounds = bounds'
                  /\ bounds' = mapView']_vars

\* the cluster was clicked at the highest zoom, the map reported the move,
\* and the fetch for the cluster's viewport is in flight
C32_Witness ==
    /\ lastClusterView.from = MaxZoom
    /\ lastClusterView.zoom = MaxZoom
    /\ bounds = ClusterPos(lastClusterView.cluster)
    /\ \E r \in pinsReqs : ~r.cancelled /\ r.bounds = bounds

\* ------------------------------------------------------------- claims: markers
\* the markers of kind on the layer that stand for id
MarkersFor(kind, id) == {m \in markerLayer : m.kind = kind /\ m.id = id}

\* C33: the marker layer holds exactly one marker per cluster and one per
\* complex of the displayed result, no marker built from another result,
\* and a complex marker is active exactly if it is the selected complex's.
C33_MarkerLayerIsRebuilt ==
    mounted =>
        /\ \A k \in ClusterIdsIn(clusters) : Cardinality(MarkersFor("cluster", k)) = 1
        /\ \A c \in ComplexIdsIn(complexes) : Cardinality(MarkersFor("complex", c)) = 1
        /\ \A m \in markerLayer :
               /\ m.kind = "cluster" =>
                      m.id \in ClusterIdsIn(clusters) /\ m.of = ResultId(clusters)
               /\ m.kind = "complex" =>
                      /\ m.id \in ComplexIdsIn(complexes)
                      /\ m.of = ResultId(complexes)
                      /\ m.active <=> (selectedComplex # NoComplex /\ m.id = selectedComplex)

\* a result other than the first one is displayed and one of its complexes
\* is selected
C33_Witness ==
    /\ mounted
    /\ complexes # EmptyList
    /\ complexes # PinsResult(DefaultView)
    /\ selectedComplex # NoComplex
    /\ \E m \in markerLayer : m.active

\* ------------------------------------------------------------- claims: bounds
\* a step that commits or drops the answer of one of the four fetches
FetchCompletion ==
    \/ \E r \in pinsReqs, ok \in BOOLEAN : PinsResponse(r, ok)
    \/ \E n \in nearbyReqs, ok \in BOOLEAN : NearbyResponse(n, ok)
    \/ \E d \in detailReqs, ok \in BOOLEAN : DetailResponse(d, ok)
    \/ \E r \in portfolioReqs, ok \in BOOLEAN : PortfolioResponse(r, ok)

SelectionQuiet ==
    /\ detailReqs = {}
    /\ portfolioReqs = {}
    /\ ~highlightList

\* C35: once every issued portfolio fetch has been answered and nothing is
\* left to trigger another, loadingPortfolios is false, also when the fetch
\* in flight was invalidated by the selection of a complex with no unit
\* types.
C35_LoadingFlagIsReleased ==
    (mounted /\ SelectionQuiet) => ~loadingPortfolios

\* ------------------------------------------------------------- claims: highlight
\* C36: every step that changes highlightList and ends with a complex and a
\* unit type selected marks every portfolio fetch in flight cancelled and
\* issues a fetch for the selected complex, unit type and filters, also
\* when none of the three changed.
C36_HighlightChangeRefetches ==
    [][(mounted /\ highlightList' # highlightList
           /\ selectedComplex' # NoComplex /\ selectedUnitType' # NoUnit) =>
          portfolioReqs' = CancelAll(portfolioReqs) \cup
              {[complex |-> selectedComplex', unit |-> selectedUnitType',
                filters |-> filters', cancelled |-> FALSE]}]_vars

\* the highlight timer fired while the fetch the pin selection had started
\* was in flight: that fetch is cancelled and its twin is in flight
C36_Witness ==
    /\ ~highlightList
    /\ selectedPinnedPortfolioId # NoPortfolio
    /\ \E r \in portfolioReqs :
           /\ ~r.cancelled
           /\ IsCurrentQuery(r)
           /\ [r EXCEPT !.cancelled = TRUE] \in portfolioReqs

\* ------------------------------------------------------------- claims: nearby
\* C37: whenever mapMode is nearby, userLocation is set, whatever the order
\* of focusNearby, resetMapView, backToBoundsMode and the responses.
C37_NearbyHasUserLocation ==
    mapMode = "nearby" => userLocation # NoLocation

\* C38: in nearby mode the displayed complexes were fetched with the radius
\* that is selected (and drawn around the user location), also after the
\* radius selector is changed.
C38_DisplayedRadiusIsSelected ==
    (mounted /\ mapMode = "nearby" /\ complexes # EmptyList) =>
        complexes.src = "nearby" /\ complexes.key[2] = nearbyRadiusM

\* ------------------------------------------------------------- claims: portfolio switch
\* C39: editingPinId, when set, is a pin of the displayed list and of the
\* selected portfolio, and the server still holds it, so a submit in edit
\* mode updates neither a pin of another portfolio nor a deleted pin.
C39_EditedPinIsOfSelectedPortfolio ==
    editingPinId # NoPin =>
        /\ editingPinId \in DOMAIN pins
        /\ PortfolioOfPin(editingPinId) = selectedPortfolioId
        /\ editingPinId \in DOMAIN serverPins

\* C40: once every floor-plan-pin call has been answered, the displayed
\* pins are the rows of the selected portfolio, whatever the order of the
\* list responses.
C40_DisplayedPinsAreOfSelectedPortfolio ==
    (Truthy(selectedPortfolioId) /\ pinCalls = {}) =>
        pins = RowsOf(serverPins, selectedPortfolioId)

====
